---------------------------- MODULE Spec2Model ----------------------------
(***************************************************************************)
(* A model of PyQtTester (src/pyqttester.py): the widget-path Resolver,    *)
(* the object registry, the EventRecorder and the EventReplayer, as they   *)
(* run under PyQt4 inside the single-threaded Qt event loop.               *)
(*                                                                         *)
(* Widgets are the integers 1..MaxWidgets; None is 0.  Python indices are  *)
(* kept 0-based in PathElement.index, sequences are 1-based.               *)
(***************************************************************************)
EXTENDS Integers, Sequences, FiniteSets, TLC

\* ------------------------------------------------------------------ bounds
MaxWidgets == 3
\* the longest event log a recording run grows
MaxLog == 2
\* the longest scenario a replay run loads
MaxScenario == 2
\* the longest session of a user at the recorded application
MaxSession == 4
\* the number of bit positions of a flags value
MaxBits == 3
\* the number of qApp.quit() calls a run is followed for
MaxQuits == 2

\* ------------------------------------------------------------- the encoding
None == 0
Widgets == 1..MaxWidgets

\* The widget classes of the modelled applications.  LocalButton is a
\* subclass of QPushButton defined inside a function, so its __qualname__
\* contains '.<locals>.'.
Types == {"QDialog", "QPushButton", "LocalButton"}
Names == {"", "but1"}

VARIABLES
    \* ---- the live widget tree (Qt's state)
    parentWidget,   \* [Widgets -> Widgets \cup {None}]: QWidget.parentWidget()
    wtype,          \* [Widgets -> Types]: type(widget)
    objectName,     \* [Widgets -> STRING]: QWidget.objectName()
    unlisted,       \* the widgets no enumeration of their parent yields
    inLayout,       \* the widgets that are items of their parent's layout()
    \* ---- one use of the Resolver on its own
    rPhase,         \* "idle" | "serialized" | "deserialized"
    rObj,           \* the widget handed to serialize_object
    rPath,          \* what serialize_object returned
    rBack,          \* what deserialize_object returned (a Result)
    \* ---- the process (main)
    mode,           \* args._subcommand: "record" | "replay" | "resolve" (no process)
    pc,             \* "running": inside args.main(), the Qt event loop runs;
                    \* "returned": args.main() returned; "closed": every filter
                    \* closed, main returned 0; "exited": REAL_EXIT was called
    exitStatus,     \* the process's exit status, -1 while it runs
    \* ---- _EventFilter.wait_for_app_start
    is_started,     \* the closure variable of the wrapped eventFilter
    \* ---- EventRecorder
    include,        \* --events-include split at ',' (a Pattern), or NoPattern
    exclude,        \* --events-exclude split at ',' (a Pattern), or NoPattern
    events,         \* self.events[2:]: the (obj_id, event_str) entries
    id_obj_map,     \* Resolver.id_obj_map, which is self.events[1]
    obj_id_map,     \* Resolver.obj_id_map
    autoinc,        \* the value next(self.autoinc) returns next
    file,           \* what was pickled into the scenario file, <<>> before
    \* ---- EventReplayer
    format_version, \* self._events[0]
    scenario,       \* self._events[1:] or [2:]: the entries to replay
    pos,            \* how many entries the iterator self.events has yielded
    timerActive,    \* self.timer.isActive()
    quitRequested,  \* qApp.quit() was called
    warned,         \* close() logged "didn't manage to replay all events"
    \* ---- what the last call of the installed eventFilter saw and did
    last,
    \* ---- history (not program state)
    hPaths,         \* the obj_path of each entry of events, in order
    delivered,      \* the qApp.sendEvent calls of the replayer, in order
    failedAt,       \* the entry whose target deserialize_object did not find, or 0
    \* ---- sys.exit as main patches it
    appExit,        \* the status of the application's last sys.exit call, -1 if none
    \* ---- the user at the recorded application
    session,        \* [script, at]: the gestures to come, and how many are done
    \* ---- parse_args and the start of main
    cmdline,        \* args of parse_args, and what they meet in the environment
    opened,         \* how args.scenario was opened: "" | "rb" | "wb"
    \* ---- EventExplainer
    printed,        \* the blocks print_state has printed, in order
    \* ---- one use of Resolver._qflags_key on its own
    flagBase,       \* the enum of the namespace: a set of [name, value]
    flagBuilt,      \* the values or-ed into the flags value, in order
    flagKeys,       \* [done, keys]: whether _qflags_key ran, and the names it returned
    \* ---- src/qttestgui.py
    FUZZY_MATCHING, \* Resolver.FUZZY_MATCHING
    \* ---- the replayer's idle timer in time
    elapsed,        \* the time since self.timer was started, up to its interval
    idle,           \* history: the time since a filter last observed an event
                    \* other than a tick of self.timer, up to the interval
    restarted,      \* history: the last eventFilter call restarted self.timer
    sending,        \* the qApp.sendEvent calls of setstate that have not returned
    \* ---- what the run has logged and asked of Qt, counted
    reported,       \* the number of events close() logged as written, -1 before
    quits           \* how many times replay_next_event called qApp.quit(), up to MaxQuits

treeVars == <<parentWidget, wtype, objectName, unlisted, inLayout>>
resolverVars == <<rPhase, rObj, rPath, rBack>>
procVars == <<mode, pc, exitStatus>>
recorderVars == <<include, exclude, events, id_obj_map, obj_id_map, autoinc, file>>
replayerVars == <<format_version, scenario, pos, timerActive, quitRequested, warned>>
histVars == <<hPaths, delivered, failedAt>>
startVars == <<cmdline, opened>>
flagVars == <<flagBase, flagBuilt, flagKeys>>
timeVars == <<elapsed, idle, restarted, sending>>
logVars == <<reported, quits>>
extVars == <<appExit, session, startVars, printed, flagVars, FUZZY_MATCHING, timeVars,
             logVars>>
vars == <<treeVars, resolverVars, procVars, is_started, recorderVars, replayerVars,
          last, histVars, extVars>>

\* ------------------------------------------------------------ sequences
RECURSIVE SortedSeq(_)
SortedSeq(S) ==
    IF S = {} THEN <<>>
    ELSE LET m == CHOOSE x \in S : \A y \in S : x <= y
         IN  <<m>> \o SortedSeq(S \ {m})

Reverse(s) == [i \in 1..Len(s) |-> s[Len(s) + 1 - i]]

\* nth(n, iterable, default=None), n counted from 0
nth(n, s) == IF n + 1 <= Len(s) THEN s[n + 1] ELSE None

\* A selection by isinstance: LocalButton is a subclass of QPushButton (the
\* mutant of C29).
TypedSeqInstance(target_type, s) ==
    SelectSeq(s, LAMBDA i : i # None /\ (wtype[i] = target_type
                                          \/ (wtype[i] = "LocalButton" /\ target_type = "QPushButton")))

TypedSeqExact(target_type, s) == SelectSeq(s, LAMBDA i : i # None /\ wtype[i] = target_type)

\* typed_nth(n, target_type, iterable, default=None)
typed_nth(n, target_type, s) == nth(n, TypedSeqExact(target_type, s))

\* ---------------------------------------------------------------- types
QualifiedName(t) ==
    CASE t = "QDialog"     -> "PyQt4.QtGui:QDialog"
      [] t = "QPushButton" -> "PyQt4.QtGui:QPushButton"
      [] t = "LocalButton" -> "testapp:main.<locals>.LocalButton"

HasLocals(t) == t = "LocalButton"

\* Resolver.serialize_type: '' when the name is not reversible
serialize_type(t) == IF HasLocals(t) THEN "" ELSE QualifiedName(t)

\* Resolver.deserialize_type raises ValueError on '' (split(':') gives one part)
TypeStrOk(s) == s # ""
deserialize_type(s) == CHOOSE t \in Types : ~HasLocals(t) /\ QualifiedName(t) = s

\* ----------------------------------------------------------- enumeration
topLevelWidgets == SortedSeq({w \in DOMAIN parentWidget : parentWidget[w] = None /\ w \notin unlisted})

\* widget.children(): the QObject children, in the order they were created
children(widget) == SortedSeq({w \in DOMAIN parentWidget : parentWidget[w] = widget /\ w \notin unlisted})

\* layout.itemAt(i).widget() for i in range(layout.count())
layoutWidgets(widget) == SortedSeq({w \in DOMAIN parentWidget : parentWidget[w] = widget /\ w \in inLayout})

\* Resolver._get_children(widget): the top-level windows for None; else the
\* widgets of the layout, then the QObject children (a widget of the layout
\* comes twice).  The panes of a QSplitter and the attributes named *__ are
\* further enumerations of the same kind and are left out.
_get_children(widget) ==
    IF widget = None THEN topLevelWidgets
    ELSE layoutWidgets(widget) \o children(widget)

allWidgets == DOMAIN parentWidget

\* ------------------------------------------------------ serialize_object
PathElement(index, type, name) == [index |-> index, type |-> type, name |-> name]

\* index of widget among the children of parent that have exactly its type,
\* counted from 0; -1 stands for Python's None.
TypedIndex(widget, parent) ==
    LET typed_widgets == TypedSeqExact(wtype[widget], _get_children(parent))
        hits == {i \in 1..Len(typed_widgets) : typed_widgets[i] = widget}
    IN  IF hits = {} THEN -1 ELSE (CHOOSE i \in hits : \A j \in hits : i <= j) - 1

\* A loop that returns what it has collected when an index cannot be
\* computed (the mutant of C28).
RECURSIVE SerializeLoop_partial(_, _)
SerializeLoop_partial(widget, path) ==
    LET parent == parentWidget[widget]
        index == TypedIndex(widget, parent)
    IN  IF index = -1 THEN Reverse(path)
        ELSE LET path2 == Append(path, PathElement(index,
                                                   serialize_type(wtype[widget]),
                                                   objectName[widget]))
             IN  IF parent = None THEN Reverse(path2)
                 ELSE SerializeLoop_partial(parent, path2)

RECURSIVE SerializeLoop(_, _)
SerializeLoop(widget, path) ==
    LET parent == parentWidget[widget]
        index == TypedIndex(widget, parent)
    IN  IF index = -1 THEN <<>>
        ELSE LET path2 == Append(path, PathElement(index,
                                                   serialize_type(wtype[widget]),
                                                   objectName[widget]))
             IN  IF parent = None THEN Reverse(path2)
                 ELSE SerializeLoop(parent, path2)

\* Resolver.serialize_object(obj): the path, root first, or <<>>
serialize_object(obj) == SerializeLoop(obj, <<>>)

\* ---------------------------------------------------- deserialize_object
\* A call's outcome: the value returned, or the exception it raised.
Ret(w) == [widget |-> w, exc |-> ""]
Raise(e) == [widget |-> None, exc |-> e]

\* A lookup that takes any named widget (the mutant of C15).
_find_by_name_any(target) == {w \in allWidgets : objectName[w] # ""}

\* Resolver._find_by_name: the widgets one of which the call returns (the
\* empty set: StopIteration).  qApp.findChild finds nothing: a QWidget never
\* has the application object as its QObject parent.  qApp.allWidgets() is
\* built from a hash set, so which widget comes first is not determined.
_find_by_name(target) == {w \in allWidgets : objectName[w] = target.name}

RECURSIVE get_child(_, _, _)
get_child(path, i, widgets) ==
    LET element == path[i + 1]
        target == path[Len(path)]
    IN  IF ~TypeStrOk(element.type) THEN Raise("ValueError")
        ELSE LET widget == typed_nth(element.index, deserialize_type(element.type), widgets)
             IN  IF element = target \/ widget = None THEN Ret(widget)
                 ELSE get_child(path, i + 1, _get_children(widget))

\* Resolver.deserialize_object(path): the set of its possible outcomes
deserialize_object(path) ==
    LET target == path[Len(path)]
    IN  IF ~TypeStrOk(target.type) THEN {Raise("ValueError")}
        ELSE IF target.name # "" /\ _find_by_name(target) # {}
             THEN {Ret(w) : w \in _find_by_name(target)}
             ELSE {get_child(path, 0, topLevelWidgets)}

\* ---------------------------------------------------------------- events
\* A QEvent as the filters read it: type(event).__name__, event.type(),
\* event.key() (key events), event.spontaneous(), event.timerId() (timer
\* events: "own" is the replayer's idle timer).
Event(cls, type, key, spontaneous, timerId) ==
    [cls |-> cls, type |-> type, key |-> key, spontaneous |-> spontaneous,
     timerId |-> timerId]

\* Key codes: Key_A is a name of the Qt namespace, 0 is what Qt reports for
\* a key it does not know (it is no Qt.Key_* constant).
KnownKeys == {"Key_A"}
UnknownKey == "0"

\* The events the modelled applications see: window activation (sent by
\* Qt itself), and the user's mouse, key and close events (spontaneous: they
\* come from the window system); a mouse press may also be one the
\* application sent on its own.
ObservableEvents ==
    {Event("QEvent", "ActivationChange", "", FALSE, ""),
     Event("QMouseEvent", "MouseButtonPress", "", TRUE, ""),
     Event("QMouseEvent", "MouseButtonPress", "", FALSE, ""),
     Event("QMouseEvent", "MouseMove", "", TRUE, ""),
     Event("QCloseEvent", "Close", "", TRUE, "")}
    \cup {Event("QKeyEvent", "KeyPress", k, TRUE, "") : k \in KnownKeys \cup {UnknownKey}}

\* type(event).__name__ cut into the words the patterns are made of
ClassWords(cls) ==
    CASE cls = "QEvent"      -> <<"Q", "Event">>
      [] cls = "QMouseEvent" -> <<"Q", "Mouse", "Event">>
      [] cls = "QKeyEvent"   -> <<"Q", "Key", "Event">>
      [] cls = "QCloseEvent" -> <<"Q", "Close", "Event">>
      [] cls = "QTimerEvent" -> <<"Q", "Timer", "Event">>

\* Resolver.EVENT_ATTRIBUTES.get(type(event).__name__, ('type',))
EVENT_ATTRIBUTES(cls) ==
    CASE cls = "QMouseEvent" -> <<"type", "pos", "globalPos", "button", "buttons", "modifiers">>
      [] cls = "QKeyEvent"   -> <<"type", "key", "modifiers", "text", "isAutoRepeat", "count">>
      [] cls = "QMoveEvent"  -> <<"pos", "oldPos">>
      [] cls = "QCloseEvent" -> <<>>
      [] OTHER               -> <<"type">>

\* Resolver._serialize_value(value, attr) for getattr(event, attr)() of the
\* events above: the string, or the exception raised.  QT_KEYS[value]
\* raises KeyError for a key that is no Qt.Key_* constant.
_serialize_value(event, attr) ==
    CASE attr = "key" ->
             IF event.key \in KnownKeys THEN [str |-> "Qt." \o event.key, exc |-> ""]
             ELSE [str |-> "", exc |-> "KeyError"]
      [] attr \in {"pos", "globalPos", "oldPos"} -> [str |-> "QtCore.QPoint(1, 2)", exc |-> ""]
      [] attr \in {"button", "buttons"} -> [str |-> "Qt.LeftButton", exc |-> ""]
      [] attr = "modifiers" -> [str |-> "Qt.NoModifier", exc |-> ""]
      [] attr = "text" -> [str |-> "'a'", exc |-> ""]
      [] attr = "isAutoRepeat" -> [str |-> "False", exc |-> ""]
      [] attr = "count" -> [str |-> "1", exc |-> ""]

\* Resolver.serialize_event(event): [str |-> <<class name, arg, ...>>, exc]
serialize_event(event) ==
    LET event_attributes == EVENT_ATTRIBUTES(event.cls)
        hasType == event_attributes # <<>> /\ event_attributes[1] = "type"
        first == IF hasType THEN <<"QtCore.QEvent." \o event.type>> ELSE <<>>
        rest == IF hasType THEN Tail(event_attributes) ELSE event_attributes
        vals == [i \in 1..Len(rest) |-> _serialize_value(event, rest[i])]
        raised == {i \in 1..Len(rest) : vals[i].exc \notin {"", "ValueError"}}
        args == [i \in 1..Len(rest) |->
                    IF vals[i].exc = "ValueError" THEN "0b0" ELSE vals[i].str]
    IN  IF raised # {}
        THEN [str |-> <<>>, exc |-> vals[CHOOSE i \in raised : \A j \in raised : i <= j].exc]
        ELSE [str |-> <<event.cls>> \o first \o args, exc |-> ""]

\* -------------------------------------------------------- the patterns
\* --events-include / --events-exclude: the option split at ',', each part
\* a sequence of words; NoPattern when the option is None or ''.
NoPattern == <<>>
\* A default that leaves the close events out (the mutant of C14).
DefaultInclude_without_close == << <<"Mouse", "Event">>, <<"Key", "Event">> >>

\* the default of --events-include
DefaultInclude == << <<"Mouse", "Event">>, <<"Key", "Event">>, <<"Close", "Event">> >>

\* re.search of one alternative: it occurs somewhere in the name
Occurs(alt, words) ==
    \E k \in 0..(Len(words) - Len(alt)) :
        \A i \in 1..Len(alt) : words[k + i] = alt[i]

\* re.compile('|'.join(parts)).search(event_name)
Search(pattern, event_name) ==
    \E j \in 1..Len(pattern) : Occurs(pattern[j], ClassWords(event_name))

is_included(event_name) == IF include # NoPattern THEN Search(include, event_name) ELSE TRUE
is_excluded(event_name) == IF exclude # NoPattern THEN Search(exclude, event_name) ELSE FALSE

\* ------------------------------------------------------------ the registry
SCENARIO_FORMAT_VERSION == 1

isQWidget(obj) == obj \in DOMAIN parentWidget
\* an object of the application that is no QWidget (a QTimer, the QApplication)
NonWidget == -1

\* A getstate that draws a fresh id for every event (the mutant of C8).
getstate_fresh_id(obj, event) ==
    LET obj_path == IF isQWidget(obj) THEN serialize_object(obj) ELSE <<>>
        ev == serialize_event(event)
        unchanged == [id_obj_map |-> id_obj_map, obj_id_map |-> obj_id_map,
                      autoinc |-> autoinc]
    IN  IF ~isQWidget(obj) THEN [ret |-> <<>>, exc |-> "AssertionError"] @@ unchanged
        ELSE IF obj_path = <<>> THEN [ret |-> <<>>, exc |-> ""] @@ unchanged
        ELSE IF ev.exc # "" THEN [ret |-> <<>>, exc |-> ev.exc] @@ unchanged
        ELSE [ret |-> <<autoinc, ev.str>>, exc |-> "",
              id_obj_map |-> (autoinc :> obj_path) @@ id_obj_map,
              obj_id_map |-> (obj_path :> autoinc) @@ obj_id_map,
              autoinc |-> autoinc + 1]

\* A getstate that draws the id before it looks at the path (the mutant of C9).
getstate_eager_id(obj, event) ==
    LET obj_path == IF isQWidget(obj) THEN serialize_object(obj) ELSE <<>>
        ev == serialize_event(event)
        unchanged == [id_obj_map |-> id_obj_map, obj_id_map |-> obj_id_map,
                      autoinc |-> autoinc]
        drawn == [id_obj_map |-> id_obj_map, obj_id_map |-> obj_id_map,
                  autoinc |-> autoinc + 1]
    IN  IF ~isQWidget(obj) THEN [ret |-> <<>>, exc |-> "AssertionError"] @@ unchanged
        ELSE IF obj_path = <<>> THEN [ret |-> <<>>, exc |-> ""] @@ drawn
        ELSE IF ev.exc # "" THEN [ret |-> <<>>, exc |-> ev.exc] @@ drawn
        ELSE IF obj_path \in DOMAIN obj_id_map
             THEN [ret |-> <<obj_id_map[obj_path], ev.str>>, exc |-> ""] @@ drawn
             ELSE [ret |-> <<autoinc, ev.str>>, exc |-> "",
                   id_obj_map |-> (autoinc :> obj_path) @@ id_obj_map,
                   obj_id_map |-> (obj_path :> autoinc) @@ obj_id_map,
                   autoinc |-> autoinc + 1]

\* Resolver.getstate(obj, event): what it returns (None: ret = <<>>), the
\* exception that leaves it, and the registry afterwards.  serialize_object
\* asserts that obj is a QWidget.
getstate(obj, event) ==
    LET obj_path == IF isQWidget(obj) THEN serialize_object(obj) ELSE <<>>
        ev == serialize_event(event)
        unchanged == [id_obj_map |-> id_obj_map, obj_id_map |-> obj_id_map,
                      autoinc |-> autoinc]
    IN  IF ~isQWidget(obj) THEN [ret |-> <<>>, exc |-> "AssertionError"] @@ unchanged
        ELSE IF obj_path = <<>> THEN [ret |-> <<>>, exc |-> ""] @@ unchanged
        ELSE IF ev.exc # "" THEN [ret |-> <<>>, exc |-> ev.exc] @@ unchanged
        ELSE IF obj_path \in DOMAIN obj_id_map
             THEN [ret |-> <<obj_id_map[obj_path], ev.str>>, exc |-> ""] @@ unchanged
             ELSE [ret |-> <<autoinc, ev.str>>, exc |-> "",
                   id_obj_map |-> (autoinc :> obj_path) @@ id_obj_map,
                   obj_id_map |-> (obj_path :> autoinc) @@ obj_id_map,
                   autoinc |-> autoinc + 1]

\* ------------------------------------------------------------ the trees
\* The widget trees of MaxWidgets widgets: a widget's parent is created
\* before it, and at most one widget is special: missing from its parent's
\* enumeration, or an item of its parent's layout.
TreeInit ==
    /\ parentWidget \in {f \in [Widgets -> Widgets \cup {None}] : \A w \in Widgets : f[w] < w}
    /\ wtype \in [Widgets -> Types]
    /\ objectName \in [Widgets -> Names]
    /\ \E special \in Widgets \cup {None}, how \in {"unlisted", "inLayout"} :
          /\ special = None => how = "unlisted"
          /\ unlisted = IF special # None /\ how = "unlisted" THEN {special} ELSE {}
          /\ inLayout = IF special # None /\ how = "inLayout" /\ parentWidget[special] # None
                        THEN {special} ELSE {}

\* src/testapp.py: a QDialog (1) holding the buttons but1 (2) and but2 (3);
\* widget 4 is a button of the dialog that the dialog does not enumerate.
TestAppInit ==
    /\ parentWidget = <<None, 1, 1, 1>>
    /\ wtype = <<"QDialog", "QPushButton", "QPushButton", "QPushButton">>
    /\ objectName = <<"", "but1", "but2", "">>
    /\ unlisted = {4}
    /\ inLayout = {2, 3}

NoLast == [obj |-> None, event |-> Event("", "", "", FALSE, ""), reached |-> FALSE,
           ret |-> "", active |-> FALSE, activated |-> FALSE]

ResolverIdle ==
    /\ rPhase = "idle"
    /\ rObj = None
    /\ rPath = <<>>
    /\ rBack = Ret(None)

RecorderIdle ==
    /\ events = <<>>
    /\ obj_id_map = <<>>
    /\ autoinc = 1
    /\ file = <<>>
    /\ hPaths = <<>>

ReplayerIdle ==
    /\ format_version = SCENARIO_FORMAT_VERSION
    /\ scenario = <<>>
    /\ pos = 0
    /\ timerActive = FALSE
    /\ quitRequested = FALSE
    /\ warned = FALSE
    /\ delivered = <<>>
    /\ failedAt = 0

\* the parts of the state a run does not use
NoArgs == [main |-> "", scenario |-> "", x11 |-> FALSE, x11_video |-> FALSE,
           ffmpeg |-> FALSE, Xvfb |-> FALSE, xauth |-> FALSE]

\* the idle timer and the sends of a replay not begun
TimeIdle ==
    /\ elapsed = 0
    /\ idle = 0
    /\ restarted = FALSE
    /\ sending = 0

\* nothing logged as written, quit never asked for
LogIdle ==
    /\ reported = -1
    /\ quits = 0

ExtIdle ==
    /\ appExit = -1
    /\ session = [script |-> <<>>, at |-> 0]
    /\ cmdline = NoArgs
    /\ opened = ""
    /\ printed = <<>>
    /\ flagBase = {}
    /\ flagBuilt = <<>>
    /\ flagKeys = [done |-> FALSE, keys |-> <<>>]
    /\ FUZZY_MATCHING = FALSE
    /\ TimeIdle
    /\ LogIdle

\* --------------------------------------------- the Resolver on its own
InitResolver ==
    /\ TreeInit
    /\ ResolverIdle
    /\ mode = "resolve" /\ pc = "closed" /\ exitStatus = -1
    /\ is_started = FALSE
    /\ include = NoPattern /\ exclude = NoPattern
    /\ id_obj_map = <<>>
    /\ RecorderIdle
    /\ ReplayerIdle
    /\ last = NoLast
    /\ ExtIdle

Serialize(w) ==
    /\ mode = "resolve"
    /\ rPhase = "idle"
    /\ rPhase' = "serialized"
    /\ rObj' = w
    /\ rPath' = serialize_object(w)
    /\ UNCHANGED <<treeVars, rBack, procVars, is_started, recorderVars, replayerVars,
                   last, histVars, extVars>>

Deserialize ==
    /\ mode = "resolve"
    /\ rPhase = "serialized"
    /\ rPath # <<>>
    /\ rPhase' = "deserialized"
    /\ rBack' \in deserialize_object(rPath)
    /\ UNCHANGED <<treeVars, rObj, rPath, procVars, is_started, recorderVars,
                   replayerVars, last, histVars, extVars>>

NextResolver ==
    \/ \E w \in Widgets : Serialize(w)
    \/ Deserialize

SpecResolver == InitResolver /\ [][NextResolver]_vars

\* -------------------------------------------------- the start-up gate
\* A gate that forgets: open only for the ActivationChange itself (the
\* mutant of C5).
StartedAfter_forgets(event) == event.type = "ActivationChange"

\* wait_for_app_start.f: is_started once f has looked at the event
StartedAfter(event) == is_started \/ event.type = "ActivationChange"

\* A wrapper that always proceeds with the filter method (the mutant of C4).
CallsMethod_always(started) == TRUE

\* A wrapper that decides on the gate as it was before the event (the mutant
\* of C39).
CallsMethod_late(started) == started /\ is_started

\* wait_for_app_start.f: method(self, obj, event) if is_started else False
CallsMethod(started) == started

\* ------------------------------------------------------ a recording run
\* An event_matches that leaves the exclusion out (the mutant of C7).
event_matches_included_only(event_name) == is_included(event_name)

\* EventRecorder.event_matches
event_matches(event_name) == is_included(event_name) /\ ~is_excluded(event_name)

\* EventRecorder.eventFilter: is_skipped
is_skipped(obj, event) == ~event_matches(event.cls) \/ ~isQWidget(obj)

\* An activation for every event to be recorded on a widget whose window is
\* not active (the mutant of C26).
activates_any_qualifying(obj, event, active) ==
    isQWidget(obj) /\ ~is_skipped(obj, event) /\ ~active

\* EventRecorder.eventFilter: whether obj.activateWindow() is called;
\* active is what obj.isActiveWindow() answers
activates(obj, event, active) ==
    /\ isQWidget(obj)
    /\ event.type # "MouseMove"
    /\ ~is_skipped(obj, event)
    /\ ~active
    /\ event.spontaneous

\* whether eventFilter gets as far as asking obj.isActiveWindow()
asksActive(obj, event) ==
    isQWidget(obj) /\ event.type # "MouseMove" /\ ~is_skipped(obj, event)

\* The wrapped EventRecorder.eventFilter(obj, event), whole: the start-up
\* gate f of wait_for_app_start, then the method.  An exception that leaves
\* the filter reaches sys.excepthook, which calls REAL_EXIT(2).
RecorderEventFilter(obj, event, active) ==
    LET started == StartedAfter(event)
        seen == [obj |-> obj, event |-> event, active |-> active]
    IN  /\ active => (CallsMethod(started) /\ asksActive(obj, event))
        /\ is_started' = started
        /\ IF ~CallsMethod(started)
           THEN /\ last' = seen @@ [reached |-> FALSE, ret |-> "False", activated |-> FALSE]
                /\ UNCHANGED <<recorderVars, procVars, hPaths>>
           ELSE IF is_skipped(obj, event)
           THEN /\ last' = seen @@ [reached |-> TRUE, ret |-> "False", activated |-> FALSE]
                /\ UNCHANGED <<recorderVars, procVars, hPaths>>
           ELSE \E st \in {getstate(obj, event)} :
                IF st.exc # ""
                THEN /\ last' = seen @@ [reached |-> TRUE, ret |-> "raised",
                                         activated |-> activates(obj, event, active)]
                     /\ pc' = "exited"
                     /\ exitStatus' = 2
                     /\ id_obj_map' = st.id_obj_map
                     /\ obj_id_map' = st.obj_id_map
                     /\ autoinc' = st.autoinc
                     /\ UNCHANGED <<include, exclude, events, file, mode, hPaths>>
                ELSE /\ last' = seen @@ [reached |-> TRUE, ret |-> "False",
                                         activated |-> activates(obj, event, active)]
                     /\ events' = IF st.ret # <<>> THEN Append(events, st.ret) ELSE events
                     /\ hPaths' = IF st.ret # <<>> THEN Append(hPaths, serialize_object(obj))
                                  ELSE hPaths
                     /\ id_obj_map' = st.id_obj_map
                     /\ obj_id_map' = st.obj_id_map
                     /\ autoinc' = st.autoinc
                     /\ UNCHANGED <<include, exclude, file, procVars>>

\* Qt hands an event to the application's event filters.
RecorderObserve(obj, event, active) ==
    /\ mode = "record"
    /\ pc = "running"
    /\ Len(events) < MaxLog
    /\ RecorderEventFilter(obj, event, active)
    /\ UNCHANGED <<treeVars, resolverVars, replayerVars, delivered, failedAt, extVars>>

\* args.main() returns: the application left its event loop (its own
\* sys.exit(0) is the patched exit, which returns).
AppReturns ==
    /\ pc = "running"
    /\ pc' = "returned"
    /\ UNCHANGED <<treeVars, resolverVars, mode, exitStatus, is_started, recorderVars,
                   replayerVars, last, histVars, extVars>>

\* the statuses the application hands to sys.exit
AppStatuses == {0, 4}

\* A patched exit that always ends the process (the mutant of C13).
exit_always(status) == TRUE

\* main.exit(status): whether it goes on to REAL_EXIT(status)
exit(status) == status # 0

\* The application calls sys.exit(status), which main has replaced by exit.
AppExit(status) ==
    /\ mode \in {"record", "replay"}
    /\ pc = "running"
    /\ appExit' = status
    /\ IF exit(status)
       THEN pc' = "exited" /\ exitStatus' = status
       ELSE UNCHANGED <<pc, exitStatus>>
    /\ UNCHANGED <<treeVars, resolverVars, mode, is_started, recorderVars, replayerVars,
                   last, histVars, session, startVars, printed, flagVars, FUZZY_MATCHING, logVars, timeVars>>

\* A close that does not wait for args.main() to return (the mutant of C12).
RecorderClose_early ==
    /\ mode = "record"
    /\ pc = "running"
    /\ file' = <<SCENARIO_FORMAT_VERSION, id_obj_map>> \o events
    /\ pc' = "closed"
    /\ exitStatus' = 0
    /\ UNCHANGED <<treeVars, resolverVars, mode, is_started, include, exclude, events,
                   id_obj_map, obj_id_map, autoinc, replayerVars, last, histVars, extVars>>

\* A count that forgets the two leading entries of self.events (the mutant
\* of C31).
ReportedCount_len(self_events) == Len(self_events)

\* EventRecorder.close: the number in "Scenario of %d events written"
ReportedCount(self_events) == Len(self_events) - SCENARIO_FORMAT_VERSION - 1

\* EventRecorder.close, then main returns 0
RecorderClose ==
    /\ mode = "record"
    /\ pc = "returned"
    /\ file' = <<SCENARIO_FORMAT_VERSION, id_obj_map>> \o events
    /\ reported' = ReportedCount(file')
    /\ pc' = "closed"
    /\ exitStatus' = 0
    /\ UNCHANGED <<treeVars, resolverVars, mode, is_started, include, exclude, events,
                   id_obj_map, obj_id_map, autoinc, replayerVars, last, histVars,
                   appExit, session, startVars, printed, flagVars, FUZZY_MATCHING,
                   timeVars, quits>>

InitRecord ==
    /\ TestAppInit
    /\ ResolverIdle
    /\ mode = "record" /\ pc = "running" /\ exitStatus = -1
    /\ is_started = FALSE
    /\ include \in {DefaultInclude, NoPattern}
    /\ exclude \in {NoPattern, << <<"Key">> >>}
    /\ id_obj_map = <<>>
    /\ RecorderIdle
    /\ ReplayerIdle
    /\ last = NoLast
    /\ ExtIdle

NextRecord ==
    \/ \E obj \in DOMAIN parentWidget \cup {NonWidget}, event \in ObservableEvents,
          active \in BOOLEAN : RecorderObserve(obj, event, active)
    \/ \E status \in AppStatuses : AppExit(status)
    \/ AppReturns
    \/ RecorderClose

SpecRecord == InitRecord /\ [][NextRecord]_vars

\* --------------------------------------------------------- a replay run
EventTypes == {"ActivationChange", "MouseButtonPress", "MouseMove", "KeyPress",
               "Close", "Timer"}

\* Resolver.deserialize_event(event_str): eval of the constructor call.  An
\* event made this way is not spontaneous.
deserialize_event(event_str) ==
    LET cls == event_str[1]
        attrs == EVENT_ATTRIBUTES(cls)
        type == IF attrs # <<>> /\ attrs[1] = "type"
                THEN CHOOSE t \in EventTypes : "QtCore.QEvent." \o t = event_str[2]
                ELSE "Close"
        key == IF cls = "QKeyEvent"
               THEN CHOOSE k \in KnownKeys : "Qt." \o k = event_str[3]
               ELSE ""
    IN  Event(cls, type, key, FALSE, "")

\* what the recorder writes for a left button press and for a close event
PressStr == serialize_event(Event("QMouseEvent", "MouseButtonPress", "", TRUE, "")).str
CloseStr == serialize_event(Event("QCloseEvent", "Close", "", TRUE, "")).str

\* the object paths of src/testapp.py's dialog and of its two buttons
DialogPath == <<PathElement(0, "PyQt4.QtGui:QDialog", "")>>
But1Path == DialogPath \o <<PathElement(0, "PyQt4.QtGui:QPushButton", "but1")>>
But2Path == DialogPath \o <<PathElement(1, "PyQt4.QtGui:QPushButton", "but2")>>

\* What a recording of the (obj_path, event_str) pairs in `pairs` left in
\* the scenario file: the registry and the entries, ids in first-seen order.
RECURSIVE RecordedFile(_, _, _)
RecordedFile(pairs, registry, entries) ==
    IF pairs = <<>> THEN [registry |-> registry, entries |-> entries]
    ELSE LET path == Head(pairs)[1]
             known == {i \in DOMAIN registry : registry[i] = path}
             id == IF known # {} THEN CHOOSE i \in known : TRUE ELSE Len(registry) + 1
         IN  RecordedFile(Tail(pairs),
                          IF known # {} THEN registry ELSE Append(registry, path),
                          Append(entries, <<id, Head(pairs)[2]>>))

\* the scenarios of at most MaxScenario events recorded on src/testapp.py
RecordedPairs ==
    UNION {[1..n -> {But1Path, But2Path, DialogPath} \X {PressStr, CloseStr}] :
               n \in 0..MaxScenario}

\* Resolver.id_obj_map[obj_id]: the registry, or IdentityMapper (version 0)
RegistryLookup(obj_id) == IF format_version > 0 THEN id_obj_map[obj_id] ELSE obj_id

\* EventReplayer.eventFilter: the event is a tick of self.timer
IsOwnTimer(event) == event.type = "Timer" /\ event.timerId = "own"

\* A filter that never touches the timer (the mutant of C11).
TimerAfter_untouched(event, started, active) == active

\* A filter without the start-up gate (the mutant of C22).
TimerAfter_ungated(event, started, active) == IF IsOwnTimer(event) THEN active ELSE TRUE

\* The wrapped EventReplayer.eventFilter(obj, event): whether self.timer is
\* active afterwards.
TimerAfter(event, started, active) ==
    IF ~CallsMethod(started) THEN active
    ELSE IF IsOwnTimer(event) THEN active
    ELSE TRUE

\* A filter that restarts the timer on its own tick as well (the mutant of
\* C23).
Restarts_on_own_tick(event, started) == CallsMethod(started)

\* The wrapped EventReplayer.eventFilter(obj, event): whether it gets to
\* self.timer.stop(); self.timer.start()
Restarts(event, started) == CallsMethod(started) /\ ~IsOwnTimer(event)

ReplayerObserve(obj, event) ==
    /\ mode = "replay"
    /\ pc = "running"
    /\ is_started' = StartedAfter(event)
    /\ timerActive' = TimerAfter(event, is_started', timerActive)
    /\ last' = [obj |-> obj, event |-> event, active |-> FALSE,
                reached |-> CallsMethod(is_started'), ret |-> "False", activated |-> FALSE]
    /\ restarted' = Restarts(event, is_started')
    /\ elapsed' = IF Restarts(event, is_started') THEN 0 ELSE elapsed
    /\ idle' = IF IsOwnTimer(event) THEN idle ELSE 0
    /\ UNCHANGED <<treeVars, resolverVars, procVars, recorderVars, format_version,
                   scenario, pos, quitRequested, warned, histVars, appExit, session,
                   startVars, printed, flagVars, FUZZY_MATCHING, logVars, sending>>

\* A pop that skips an entry (the mutant of C2).
NextIndex_skips(p) == IF p + 2 <= Len(scenario) THEN p + 2 ELSE p + 1

\* replay_next_event: next(self.events, None) yields the entry after the
\* p entries yielded so far
NextIndex(p) == p + 1

\* An exhaustion test that is off by one (the mutant of C10).
Exhausted_early(p) == p + 1 >= Len(scenario)

\* replay_next_event: next(self.events, None) is None
Exhausted(p) == p = Len(scenario)

\* A setstate that gives up on the event and returns (the mutant of C3).
setstate_returns(obj_id, event_str, found) ==
    IF found.exc # "" THEN [kind |-> "raised", status |-> 2]
    ELSE IF found.widget = None THEN [kind |-> "returned", status |-> 0]
    ELSE [kind |-> "sent", status |-> 0]

\* Resolver.setstate(obj_id, event_str), found being what deserialize_object
\* gave: REAL_EXIT(3), or qApp.sendEvent(obj, event); an exception reaches
\* sys.excepthook, which calls REAL_EXIT(2).
setstate(obj_id, event_str, found) ==
    IF found.exc # "" THEN [kind |-> "raised", status |-> 2]
    ELSE IF found.widget = None THEN [kind |-> "exit", status |-> 3]
    ELSE [kind |-> "sent", status |-> 0]

\* the replayer's own tick, as the filters see it
OwnTick == Event("QTimerEvent", "Timer", "", FALSE, "own")

\* The idle timer expires: Qt hands the QTimerEvent to the filters (the
\* replayer ignores its own tick), then the timeout signal runs
\* replay_next_event, whole.  A sent event passes the filters as well, which
\* restarts the timer, and then runs the application's handler; `spins`
\* says whether that handler runs the event loop itself (a modal dialog's
\* exec, processEvents) before sendEvent returns.
Timeout(spins) ==
    /\ mode = "replay"
    /\ pc = "running"
    /\ timerActive
    /\ UNCHANGED <<treeVars, resolverVars, mode, recorderVars, format_version, scenario,
                   warned, is_started, hPaths, appExit, session, startVars, printed,
                   flagVars, FUZZY_MATCHING, reported>>
    /\ elapsed' = 0
    /\ IF Exhausted(pos)
       THEN /\ quitRequested' = TRUE
            /\ quits' = IF quits < MaxQuits THEN quits + 1 ELSE quits
            /\ timerActive' = FALSE
            /\ last' = [obj |-> NonWidget, event |-> OwnTick,
                        active |-> FALSE, reached |-> CallsMethod(is_started),
                        ret |-> "False", activated |-> FALSE]
            /\ restarted' = Restarts(OwnTick, is_started)
            /\ UNCHANGED <<pos, pc, exitStatus, delivered, failedAt, idle, sending>>
       ELSE \E entry \in {scenario[NextIndex(pos)]} :
            \E found \in deserialize_object(RegistryLookup(entry[1])) :
            \E out \in {setstate(entry[1], entry[2], found)} :
               /\ pos' = NextIndex(pos)
               /\ quitRequested' = quitRequested
               /\ quits' = quits
               /\ failedAt' = IF found.exc = "" /\ found.widget = None /\ failedAt = 0
                              THEN NextIndex(pos) ELSE failedAt
               /\ IF out.kind = "sent"
                  THEN /\ delivered' = Append(delivered,
                                              [obj |-> found.widget,
                                               event |-> deserialize_event(entry[2])])
                       /\ timerActive' = TimerAfter(deserialize_event(entry[2]), is_started, FALSE)
                       /\ last' = [obj |-> found.widget, event |-> deserialize_event(entry[2]),
                                   active |-> FALSE, reached |-> CallsMethod(is_started),
                                   ret |-> "False", activated |-> FALSE]
                       /\ restarted' = Restarts(deserialize_event(entry[2]), is_started)
                       /\ idle' = 0
                       /\ sending' = IF spins THEN sending + 1 ELSE sending
                       /\ UNCHANGED <<pc, exitStatus>>
                  ELSE /\ timerActive' = FALSE
                       /\ last' = [obj |-> NonWidget, event |-> OwnTick,
                                   active |-> FALSE, reached |-> CallsMethod(is_started),
                                   ret |-> "False", activated |-> FALSE]
                       /\ restarted' = Restarts(OwnTick, is_started)
                       /\ delivered' = delivered
                       /\ UNCHANGED <<idle, sending>>
                       /\ IF out.kind = "returned"
                          THEN UNCHANGED <<pc, exitStatus>>
                          ELSE pc' = "exited" /\ exitStatus' = out.status

\* the timer expires, the handler of a sent event returns at once
TimerExpires == Timeout(FALSE)

\* A close that never warns (the mutant of C30).
ReplayerClose_silent ==
    /\ mode = "replay"
    /\ pc = "returned"
    /\ warned' = FALSE
    /\ pos' = Len(scenario)
    /\ pc' = "closed"
    /\ exitStatus' = 0
    /\ UNCHANGED <<treeVars, resolverVars, mode, is_started, recorderVars, format_version,
                   scenario, timerActive, quitRequested, last, histVars, extVars>>

\* EventReplayer.close, then main returns 0
ReplayerClose ==
    /\ mode = "replay"
    /\ pc = "returned"
    /\ warned' = (pos < Len(scenario))
    /\ pos' = Len(scenario)
    /\ pc' = "closed"
    /\ exitStatus' = 0
    /\ UNCHANGED <<treeVars, resolverVars, mode, is_started, recorderVars, format_version,
                   scenario, timerActive, quitRequested, last, histVars, extVars>>

\* the application replayed on: src/testapp.py as recorded, ...
ReplayTestApp == TestAppInit

\* ... the dialog with both buttons gone, ...
ReplayNoButtons ==
    /\ parentWidget = <<None>>
    /\ wtype = <<"QDialog">>
    /\ objectName = <<"">>
    /\ unlisted = {}
    /\ inLayout = {}

\* ... or the dialog with unnamed buttons, the first of them a new one.
ReplayShifted ==
    /\ parentWidget = <<None, 1, 1>>
    /\ wtype = <<"QDialog", "QPushButton", "QPushButton">>
    /\ objectName = <<"", "", "">>
    /\ unlisted = {}
    /\ inLayout = {2, 3}

\* the events the application under replay dispatches by itself
ReplayObservable ==
    {Event("QEvent", "ActivationChange", "", FALSE, ""),
     Event("QMouseEvent", "MouseMove", "", TRUE, ""),
     Event("QTimerEvent", "Timer", "", FALSE, "other")}

\* EventReplayer.load
InitReplay ==
    /\ ReplayTestApp \/ ReplayNoButtons \/ ReplayShifted
    /\ ResolverIdle
    /\ mode = "replay" /\ pc = "running" /\ exitStatus = -1
    /\ is_started = FALSE
    /\ include = NoPattern /\ exclude = NoPattern
    /\ RecorderIdle
    /\ \E pairs \in RecordedPairs, version \in {0, SCENARIO_FORMAT_VERSION} :
         \E f \in {RecordedFile(pairs, <<>>, <<>>)} :
           /\ format_version = version
           /\ id_obj_map = IF version > 0 THEN f.registry ELSE <<>>
           /\ scenario = IF version > 0 THEN f.entries ELSE pairs
    /\ pos = 0
    /\ timerActive = FALSE
    /\ quitRequested = FALSE
    /\ warned = FALSE
    /\ delivered = <<>>
    /\ failedAt = 0
    /\ last = NoLast
    /\ ExtIdle

NextReplay ==
    \/ \E obj \in {1, NonWidget}, event \in ReplayObservable : ReplayerObserve(obj, event)
    \/ TimerExpires
    \/ \E status \in AppStatuses : AppExit(status)
    \/ AppReturns
    \/ ReplayerClose

SpecReplay == InitReplay /\ [][NextReplay]_vars

\* A replay in which an active idle timer does expire: the timer is a QTimer
\* of the running event loop, and TimerExpires stays enabled while events
\* restart it, so this is the application going quiet in the end.
InitReplayLive ==
    /\ InitReplay
    /\ format_version = SCENARIO_FORMAT_VERSION
    /\ ReplayTestApp \/ ReplayNoButtons

SpecReplayLive == InitReplayLive /\ [][NextReplay]_vars /\ WF_vars(TimerExpires)

\* ================================================================ claims

\* C1: for every widget with a non-empty path, deserializing the path on the
\* unchanged tree returns the widget itself (named and unnamed alike).
C1_RoundTrip == rPhase = "deserialized" => rBack = Ret(rObj)

\* The delivered events are the scenario's first entries, in order.
DeliveredIsPrefix ==
    /\ Len(delivered) <= Len(scenario)
    /\ \A i \in 1..Len(delivered) : delivered[i].event = deserialize_event(scenario[i][2])

\* C2: the events delivered so far are a prefix of the scenario's log, in
\* recorded order, and a step delivers at most one event.
C2_ReplayOrder ==
    /\ []DeliveredIsPrefix
    /\ [][Len(delivered') <= Len(delivered) + 1]_vars

C2_Witness ==
    /\ Len(delivered) = 2
    /\ scenario[1][2] # scenario[2][2]
    /\ pc = "running"

\* The entry's registered path is one of the test app's buttons.
TargetsButton(entry) == RegistryLookup(entry[1]) \in {But1Path, But2Path}

\* C3: when a replay step does not find the recorded target, the process
\* exits with status 3 and neither that event nor a later one is delivered;
\* on the dialog without buttons a scenario that starts at a button fails
\* at its first step.
C3_FatalResolution ==
    /\ failedAt # 0 =>
          (pc = "exited" /\ exitStatus = 3 /\ Len(delivered) = failedAt - 1)
    /\ (DOMAIN parentWidget = {1} /\ scenario # <<>> /\ TargetsButton(scenario[1])) =>
          /\ delivered = <<>>
          /\ (pos >= 1 /\ pc # "closed") => (failedAt = 1 /\ pc = "exited" /\ exitStatus = 3)

C3_Witness ==
    /\ DOMAIN parentWidget = {1}
    /\ Len(scenario) = 2
    /\ TargetsButton(scenario[1])
    /\ failedAt = 1
    /\ exitStatus = 3

\* C4: while the first ActivationChange has not been observed, nothing is in
\* the event log and no observed event has reached the recorder's method.
C4_StartupGate == ~is_started => (events = <<>> /\ id_obj_map = <<>> /\ ~last.reached)

C4_Witness ==
    /\ ~is_started
    /\ last.obj = 2
    /\ last.event.type = "MouseButtonPress"
    /\ event_matches(last.event.cls)

\* C5: once open the gate stays open, and every event observed while it is
\* open reaches the wrapped method.
C5_GateOneWay ==
    /\ [][is_started => is_started']_vars
    /\ [](is_started => last.reached)

C5_Witness ==
    /\ is_started
    /\ last.event.type = "MouseMove"
    /\ last.reached
    /\ Len(events) = 1

\* C6: the recorder's event filter returns False for every observed event.
C6_ReturnsFalse == last.ret \in {"", "False"}

\* C7: an event is appended to the log only if its class name matches the
\* include pattern, does not match the exclude pattern, and its target is a
\* widget; a step appends at most that one event.
C7_InclusionFilter ==
    [][events' # events =>
          /\ is_included(last'.event.cls)
          /\ ~is_excluded(last'.event.cls)
          /\ isQWidget(last'.obj)
          /\ Len(events') = Len(events) + 1
          /\ SubSeq(events', 1, Len(events)) = events]_vars

C7_Witness ==
    /\ Len(events) = 1
    /\ include # NoPattern
    /\ exclude # NoPattern
    /\ last.event.cls = "QKeyEvent"
    /\ isQWidget(last.obj)
    /\ last.reached

FirstSeen(i) == CHOOSE j \in 1..i : hPaths[j] = hPaths[i] /\ \A k \in 1..(j - 1) : hPaths[k] # hPaths[i]
DistinctUpTo(i) == Cardinality({hPaths[j] : j \in 1..i})

\* C9: the ids of the registry are 1..n for the n distinct paths recorded,
\* given in the order the paths were first seen; no id is drawn for an event
\* that is not recorded.
C9_DenseIds ==
    /\ DOMAIN id_obj_map = 1..DistinctUpTo(Len(hPaths))
    /\ autoinc = DistinctUpTo(Len(hPaths)) + 1
    /\ Len(hPaths) = Len(events)
    /\ \A i \in DOMAIN events :
          /\ id_obj_map[events[i][1]] = hPaths[i]
          /\ events[i][1] = DistinctUpTo(FirstSeen(i))

C9_Witness ==
    /\ DOMAIN id_obj_map = {1}
    /\ autoinc = 2
    /\ last.obj = 4
    /\ last.reached
    /\ event_matches(last.event.cls)
    /\ last.ret = "False"

\* C10: the replayer requests quit only when every scenario event has been
\* delivered, and the tick that finds the scenario exhausted requests quit
\* and delivers nothing.
C10_Exhaustion ==
    /\ [](quitRequested => Len(delivered) = Len(scenario))
    /\ [][(timerActive /\ ~timerActive' /\ pos = Len(scenario) /\ pc' = "running") =>
             (quitRequested' /\ delivered' = delivered)]_vars

C10_Witness ==
    /\ quitRequested
    /\ Len(scenario) = 2
    /\ Len(delivered) = 2
    /\ pc = "running"


\* ------------------------------------------- a user at src/testapp.py
\* What the user does at the dialog, as the event Qt dispatches for it: the
\* window gets activated, a button is pressed, the window is closed.
Gesture(obj, event) == [obj |-> obj, event |-> event]
Activation == Gesture(1, Event("QEvent", "ActivationChange", "", FALSE, ""))
PressB1 == Gesture(2, Event("QMouseEvent", "MouseButtonPress", "", TRUE, ""))
PressB2 == Gesture(3, Event("QMouseEvent", "MouseButtonPress", "", TRUE, ""))
CloseWindow == Gesture(1, Event("QCloseEvent", "Close", "", TRUE, ""))
Gestures == {Activation, PressB1, PressB2, CloseWindow}
Sessions == UNION {[1..n -> Gestures] : n \in 0..MaxSession}

\* press B1, press B2, close the window, at the activated dialog
EndToEndSession == <<Activation, PressB1, PressB2, CloseWindow>>

\* Qt hands the event of the user's next gesture to the recorder.
UserActs(active) ==
    /\ mode = "record"
    /\ pc = "running"
    /\ session.at < Len(session.script)
    /\ LET g == session.script[session.at + 1]
       IN  RecorderEventFilter(g.obj, g.event, active)
    /\ session' = [session EXCEPT !.at = @ + 1]
    /\ UNCHANGED <<treeVars, resolverVars, replayerVars, delivered, failedAt, appExit,
                   startVars, printed, flagVars, FUZZY_MATCHING, logVars, timeVars>>

\* record with the default patterns on src/testapp.py
InitSession ==
    /\ TestAppInit
    /\ ResolverIdle
    /\ mode = "record" /\ pc = "running" /\ exitStatus = -1
    /\ is_started = FALSE
    /\ include = DefaultInclude /\ exclude = NoPattern
    /\ id_obj_map = <<>>
    /\ RecorderIdle
    /\ ReplayerIdle
    /\ last = NoLast
    /\ appExit = -1
    /\ session \in [script : Sessions, at : {0}]
    /\ cmdline = NoArgs
    /\ opened = ""
    /\ printed = <<>>
    /\ flagBase = {} /\ flagBuilt = <<>> /\ flagKeys = [done |-> FALSE, keys |-> <<>>]
    /\ FUZZY_MATCHING = FALSE
    /\ TimeIdle
    /\ LogIdle

NextSession ==
    \/ \E active \in BOOLEAN : UserActs(active)
    \/ AppReturns
    \/ RecorderClose

SpecSession == InitSession /\ [][NextSession]_vars

\* ------------------------------- the replay of the end-to-end recording
\* what the recording of EndToEndSession left in the scenario file
EndToEndFile ==
    RecordedFile(<<<<But1Path, PressStr>>, <<But2Path, PressStr>>, <<DialogPath, CloseStr>>>>,
                 <<>>, <<>>)

\* src/testapp.py: app.exec() returns once quit was requested, or once the
\* replayed close event made the dialog, the last window, close.
execReturns ==
    \/ quitRequested
    \/ \E i \in DOMAIN delivered :
          delivered[i].event.type = "Close" /\ parentWidget[delivered[i].obj] = None

\* src/testapp.py: sys.exit(app.exec()), the exit being main's, and exec()
\* giving 0; when the call comes back, testapp's main returns.
TestAppReturns ==
    /\ mode = "replay"
    /\ pc = "running"
    /\ execReturns
    /\ appExit' = 0
    /\ IF exit(0)
       THEN pc' = "exited" /\ exitStatus' = 0
       ELSE pc' = "returned" /\ exitStatus' = exitStatus
    /\ UNCHANGED <<treeVars, resolverVars, mode, is_started, recorderVars, replayerVars,
                   last, histVars, session, startVars, printed, flagVars, FUZZY_MATCHING, logVars, timeVars>>

\* replay the end-to-end recording on a fresh src/testapp.py
InitReplaySession ==
    /\ ReplayTestApp
    /\ ResolverIdle
    /\ mode = "replay" /\ pc = "running" /\ exitStatus = -1
    /\ is_started = FALSE
    /\ include = NoPattern /\ exclude = NoPattern
    /\ RecorderIdle
    /\ format_version = SCENARIO_FORMAT_VERSION
    /\ id_obj_map = EndToEndFile.registry
    /\ scenario = EndToEndFile.entries
    /\ pos = 0
    /\ timerActive = FALSE
    /\ quitRequested = FALSE
    /\ warned = FALSE
    /\ delivered = <<>>
    /\ failedAt = 0
    /\ last = NoLast
    /\ ExtIdle

NextReplaySession ==
    \/ \E obj \in DOMAIN parentWidget \cup {NonWidget}, event \in ReplayObservable : ReplayerObserve(obj, event)
    \/ TimerExpires
    \/ TestAppReturns
    \/ ReplayerClose

SpecReplaySession == InitReplaySession /\ [][NextReplaySession]_vars

\* ------------------------------------------------- Resolver._qflags_key
\* the single-bit masks of a flags value, and value & mask, a | b on them
Masks == {2^i : i \in 0..(MaxBits - 1)}
BitSet(value, mask) == (value \div mask) % 2 = 1

RECURSIVE BitOrFrom(_, _, _)
BitOrFrom(a, b, mask) ==
    IF mask > a /\ mask > b THEN 0
    ELSE (IF BitSet(a, mask) \/ BitSet(b, mask) THEN mask ELSE 0) + BitOrFrom(a, b, 2 * mask)

BitOr(a, b) == BitOrFrom(a, b, 1)

RECURSIVE OrAll(_)
OrAll(parts) == IF parts = <<>> THEN 0 ELSE BitOr(Head(parts), OrAll(Tail(parts)))

\* Qt.MouseButton as PyQt4 has it in Qt.__dict__ (MiddleButton is another
\* name of MidButton), as far as the modelled bits reach
QtMouseButton ==
    {m \in {[name |-> "NoButton", value |-> 0, klass |-> "MouseButton"],
             [name |-> "LeftButton", value |-> 1, klass |-> "MouseButton"],
             [name |-> "RightButton", value |-> 2, klass |-> "MouseButton"],
             [name |-> "MidButton", value |-> 4, klass |-> "MouseButton"],
             [name |-> "MiddleButton", value |-> 4, klass |-> "MouseButton"],
             [name |-> "XButton1", value |-> 8, klass |-> "MouseButton"],
             [name |-> "XButton2", value |-> 16, klass |-> "MouseButton"]} :
        m.value < 2^MaxBits}

\* type(value).__name__ of the values handed in: the QFlags class of the
\* enum, the enum class itself, or a plain int
FlagTypes == {"MouseButtons", "MouseButton", "int"}

\* _qflags_key: klass.__name__[:-1] looked up in base when the name ends
\* with 's'
EnumClass(typeName) == IF typeName = "MouseButtons" THEN "MouseButton" ELSE typeName

\* Resolver._qenum_key(base, klass(value), klass): the keys one of which the
\* call returns; several names of one value come in the order of
\* base.__dict__, which nothing fixes.
_qenum_key(base, value, klass) ==
    IF klass = "int" THEN {""}
    ELSE LET found == {m \in base : m.klass = klass /\ m.value = value}
         IN  IF found = {} THEN {""} ELSE {"Qt." \o m.name : m \in found}

\* the loop of _qflags_key from mask on: the possible lists keys
RECURSIVE KeysLoop(_, _, _, _)
KeysLoop(base, klass, value, mask) ==
    IF ~(mask <= value) THEN {<<>>}
    ELSE IF BitSet(value, mask)
         THEN {<<k>> \o rest : k \in _qenum_key(base, mask, klass),
                                rest \in KeysLoop(base, klass, value, 2 * mask)}
         ELSE KeysLoop(base, klass, value, 2 * mask)

\* filter(None, keys): the non-empty keys, in order; '|'.join keeps them
\* apart, so the joined string is modelled as their sequence
RECURSIVE FilterNone(_)
FilterNone(keys) ==
    IF keys = <<>> THEN <<>>
    ELSE (IF Head(keys) = "" THEN <<>> ELSE <<Head(keys)>>) \o FilterNone(Tail(keys))

\* A decomposition without the special case of 0 (the mutant of C16).
_qflags_key_without_zero(base, value, typeName) ==
    IF typeName = "int" THEN {<<>>}
    ELSE {FilterNone(keys) : keys \in KeysLoop(base, EnumClass(typeName), value, 1)}

\* Resolver._qflags_key(base, value): the strings one of which it returns
_qflags_key(base, value, typeName) ==
    IF typeName = "int" THEN {<<>>}
    ELSE LET klass == EnumClass(typeName)
         IN  UNION {IF keys = <<>> /\ value = 0
                    THEN {FilterNone(<<k>>) : k \in _qenum_key(base, 0, klass)}
                    ELSE {FilterNone(keys)} :
                       keys \in KeysLoop(base, klass, value, 1)}

\* the flags value: the parts or-ed together, in the order given
FlagValue == OrAll(flagBuilt.parts)

InitFlags ==
    /\ TestAppInit
    /\ ResolverIdle
    /\ mode = "flags" /\ pc = "closed" /\ exitStatus = -1
    /\ is_started = FALSE
    /\ include = NoPattern /\ exclude = NoPattern
    /\ id_obj_map = <<>>
    /\ RecorderIdle
    /\ ReplayerIdle
    /\ last = NoLast
    /\ appExit = -1
    /\ session = [script |-> <<>>, at |-> 0]
    /\ cmdline = NoArgs
    /\ opened = ""
    /\ printed = <<>>
    /\ flagBase \in SUBSET QtMouseButton
    /\ flagBuilt \in [parts : [1..1 -> 0..(2^MaxBits - 1)] \cup [1..2 -> 0..(2^MaxBits - 1)],
                       type : FlagTypes]
    /\ flagKeys = [done |-> FALSE, keys |-> <<>>]
    /\ FUZZY_MATCHING = FALSE
    /\ TimeIdle
    /\ LogIdle

QflagsKey ==
    /\ mode = "flags"
    /\ ~flagKeys.done
    /\ \E keys \in _qflags_key(flagBase, FlagValue, flagBuilt.type) :
          flagKeys' = [done |-> TRUE, keys |-> keys]
    /\ UNCHANGED <<treeVars, resolverVars, procVars, is_started, recorderVars, replayerVars,
                   last, histVars, appExit, session, startVars, printed, flagBase, flagBuilt,
                   FUZZY_MATCHING, logVars, timeVars>>

NextFlags == QflagsKey

SpecFlags == InitFlags /\ [][NextFlags]_vars

\* ------------------------------------- src/qttestgui.py: the Resolver
\* Resolver._get_children of qttestgui.py: the widgets of the layout only
\* (a QSplitter's panes are not modelled); nothing for None
gui_get_children(widget) == IF widget = None THEN <<>> ELSE layoutWidgets(widget)

\* Resolver._find_by_name of qttestgui.py
gui_find_by_name(target) == {w \in allWidgets : objectName[w] = target.name}

\* deserialize_object.candidates(path, i, widgets): the one item of the
\* iterator it returns (i counts from 0)
RECURSIVE candidates(_, _, _)
candidates(path, i, widgets) ==
    LET el == path[i + 1]
    IN  IF ~TypeStrOk(el.type) THEN Raise("ValueError")
        ELSE LET w == typed_nth(el.index, deserialize_type(el.type), widgets)
             IN  IF i = Len(path) - 1 THEN Ret(w)
                 ELSE candidates(path, i + 1, gui_get_children(w))

\* Resolver.deserialize_object of qttestgui.py, up to the return that ends
\* it: the set of its possible outcomes.  The statements after that return,
\* the only ones that read FUZZY_MATCHING, are never executed.
gui_deserialize_object(path) ==
    LET target == path[Len(path)]
        named == {i \in DOMAIN path : path[i].name # ""}
        descent == {candidates(path, 0, topLevelWidgets)}
    IN  IF ~TypeStrOk(target.type) THEN {Raise("ValueError")}
        ELSE IF target.name # "" /\ gui_find_by_name(target) # {}
             THEN {Ret(w) : w \in gui_find_by_name(target)}
        ELSE IF named # {}
             THEN LET target_with_name == path[CHOOSE i \in named : \A j \in named : j <= i]
                      i == CHOOSE j \in DOMAIN path :
                              /\ path[j] = target_with_name
                              /\ \A k \in 1..(j - 1) : path[k] # target_with_name
                  IN  IF gui_find_by_name(target_with_name) = {} THEN descent
                      ELSE {candidates(path, i - 1, <<w>>) :
                               w \in gui_find_by_name(target_with_name)}
        ELSE descent

\* the widget classes and the paths of the trees resolved here
GuiTypes == {"QDialog", "QPushButton"}
GuiElements ==
    {PathElement(index, serialize_type(t), name) :
        index \in 0..1, t \in GuiTypes, name \in Names}
GuiPaths == [1..1 -> GuiElements] \cup [1..2 -> GuiElements]

\* a tree of dialogs and buttons, at most one of them named, any of the
\* children in its parent's layout; a path recorded earlier; --fuzzy or not
InitGui ==
    /\ parentWidget \in {f \in [Widgets -> Widgets \cup {None}] : \A w \in Widgets : f[w] < w}
    /\ wtype \in [Widgets -> GuiTypes]
    /\ objectName \in {f \in [Widgets -> Names] : Cardinality({w \in Widgets : f[w] # ""}) <= 1}
    /\ unlisted = {}
    /\ inLayout \in SUBSET {w \in Widgets : parentWidget[w] # None}
    /\ rPhase = "serialized"
    /\ rObj = None
    /\ rPath \in GuiPaths
    /\ rBack = Ret(None)
    /\ mode = "gui" /\ pc = "closed" /\ exitStatus = -1
    /\ is_started = FALSE
    /\ include = NoPattern /\ exclude = NoPattern
    /\ id_obj_map = <<>>
    /\ RecorderIdle
    /\ ReplayerIdle
    /\ last = NoLast
    /\ appExit = -1
    /\ session = [script |-> <<>>, at |-> 0]
    /\ cmdline = NoArgs
    /\ opened = ""
    /\ printed = <<>>
    /\ flagBase = {} /\ flagBuilt = <<>> /\ flagKeys = [done |-> FALSE, keys |-> <<>>]
    /\ FUZZY_MATCHING \in BOOLEAN
    /\ TimeIdle
    /\ LogIdle

GuiDeserialize ==
    /\ mode = "gui"
    /\ rPhase = "serialized"
    /\ rPhase' = "deserialized"
    /\ rBack' \in gui_deserialize_object(rPath)
    /\ UNCHANGED <<treeVars, rObj, rPath, procVars, is_started, recorderVars,
                   replayerVars, last, histVars, extVars>>

NextGui == GuiDeserialize

SpecGui == InitGui /\ [][NextGui]_vars

\* ----------------------------------------- parse_args and main's start
\* What MODULE_PATH is: fine; not of the form module:function, or naming
\* something that is not callable (ValueError); naming a module that cannot
\* be imported (ImportError) or an attribute the module lacks
\* (AttributeError).
EntryPoints == {"ok", "malformed", "notcallable", "nomodule", "noattr"}
\* whether open() of SCENARIO succeeds
ScenarioFiles == {"openable", "unopenable"}

\* the exit status of the copy of the program that --x11 runs inside Xvfb
ChildStatuses == {0, 1, 2, 3}

\* parse_args.check_record(args): the file as opened and the status of a
\* REAL_EXIT, -1 when it returns.  _check_main only wraps the entry point
\* into args.main; it looks at nothing.
check_record(c) ==
    IF c.scenario = "unopenable" THEN {[opened |-> "", status |-> 1]}
    ELSE {[opened |-> "wb", status |-> -1]}

\* parse_args.check_replay(args)
check_replay(c) ==
    LET x11 == c.x11 \/ c.x11_video
    IN  IF c.scenario = "unopenable" THEN {[opened |-> "", status |-> 1]}
        ELSE IF c.x11_video /\ ~c.ffmpeg THEN {[opened |-> "rb", status |-> 1]}
        ELSE IF x11 /\ ~c.Xvfb THEN {[opened |-> "rb", status |-> 1]}
        ELSE IF x11 /\ ~c.xauth THEN {[opened |-> "rb", status |-> 1]}
        ELSE IF x11 THEN {[opened |-> "rb", status |-> s] : s \in ChildStatuses}
        ELSE {[opened |-> "rb", status |-> -1]}

\* parse_args.check_explain(args)
check_explain(c) ==
    IF c.scenario = "unopenable" THEN {[opened |-> "", status |-> 1]}
    ELSE {[opened |-> "rb", status |-> -1]}

\* parse_args: the check of the sub-command, whole
CheckArgs ==
    /\ pc = "checking"
    /\ \E out \in (CASE mode = "record" -> check_record(cmdline)
                     [] mode = "replay" -> check_replay(cmdline)
                     [] mode = "explain" -> check_explain(cmdline)) :
          /\ opened' = out.opened
          /\ IF out.status # -1
             THEN pc' = "exited" /\ exitStatus' = out.status
             ELSE pc' = "checked" /\ exitStatus' = exitStatus
    /\ UNCHANGED <<treeVars, resolverVars, mode, is_started, recorderVars, replayerVars,
                   last, histVars, appExit, session, cmdline, printed, flagVars,
                   FUZZY_MATCHING, logVars, timeVars>>

\* main up to args.main(): the filter is constructed on args.scenario,
\* QApplication, sys.exit and sys.excepthook are replaced
Construct ==
    /\ mode \in {"record", "replay"}
    /\ pc = "checked"
    /\ pc' = "patched"
    /\ UNCHANGED <<treeVars, resolverVars, mode, exitStatus, is_started, recorderVars,
                   replayerVars, last, histVars, extVars>>

\* parse_args._check_main._main(entry_point), called as args.main(): -1
\* when it goes on to the application's main(), else the status of the
\* REAL_EXIT: 1 through _error for a ValueError, 2 through the replaced
\* excepthook for the exceptions _main does not catch
_main(entry_point) ==
    CASE entry_point = "ok" -> -1
      [] entry_point \in {"malformed", "notcallable"} -> 1
      [] entry_point \in {"nomodule", "noattr"} -> 2

\* main: args.main()
CallMain ==
    /\ pc = "patched"
    /\ IF _main(cmdline.main) = -1
       THEN pc' = "running" /\ exitStatus' = exitStatus
       ELSE pc' = "exited" /\ exitStatus' = _main(cmdline.main)
    /\ UNCHANGED <<treeVars, resolverVars, mode, is_started, recorderVars, replayerVars,
                   last, histVars, extVars>>

InitStartup ==
    /\ TestAppInit
    /\ ResolverIdle
    /\ mode \in {"record", "replay", "explain"}
    /\ pc = "checking" /\ exitStatus = -1
    /\ is_started = FALSE
    /\ include = DefaultInclude /\ exclude = NoPattern
    /\ id_obj_map = <<>>
    /\ RecorderIdle
    /\ ReplayerIdle
    /\ last = NoLast
    /\ appExit = -1
    /\ session = [script |-> <<>>, at |-> 0]
    /\ cmdline \in [main : EntryPoints, scenario : ScenarioFiles, x11 : BOOLEAN,
                     x11_video : BOOLEAN, ffmpeg : BOOLEAN, Xvfb : BOOLEAN, xauth : BOOLEAN]
    /\ (mode # "replay") =>
          (~cmdline.x11 /\ ~cmdline.x11_video /\ ~cmdline.ffmpeg /\ ~cmdline.Xvfb /\ ~cmdline.xauth)
    /\ (mode = "explain") => cmdline.main = "ok"
    /\ opened = ""
    /\ printed = <<>>
    /\ flagBase = {} /\ flagBuilt = <<>> /\ flagKeys = [done |-> FALSE, keys |-> <<>>]
    /\ FUZZY_MATCHING = FALSE
    /\ TimeIdle
    /\ LogIdle

NextStartup ==
    \/ CheckArgs
    \/ Construct
    \/ CallMain

SpecStartup == InitStartup /\ [][NextStartup]_vars

\* -------------------------------------------------------------- explain
\* str.replace('QtCore.', '') on one part of an event string
replace_QtCore(part) ==
    IF part = "QtCore.QPoint(1, 2)" THEN "QPoint(1, 2)"
    ELSE IF \E t \in EventTypes : part = "QtCore.QEvent." \o t
         THEN "QEvent." \o (CHOOSE t \in EventTypes : part = "QtCore.QEvent." \o t)
         ELSE part

\* the lines print_state writes for the elements of obj_path
ObjectLines(obj_path) ==
    [indent \in 1..Len(obj_path) |->
        <<indent, obj_path[indent].index, obj_path[indent].name, obj_path[indent].type>>]

\* A print_state that prints the object only when it is found among the
\* widgets (the mutant of C20).
print_state_live(i, obj_id, event_str) ==
    [event |-> <<i, [k \in DOMAIN event_str |-> replace_QtCore(event_str[k])]>>,
     object |-> IF \E r \in deserialize_object(RegistryLookup(obj_id)) : r.widget # None
                THEN ObjectLines(RegistryLookup(obj_id)) ELSE <<>>]

\* Resolver.print_state(i, obj_id, event_str): the block printed, its
\* 'Event' line and the lines under 'Object:'
print_state(i, obj_id, event_str) ==
    [event |-> <<i, [k \in DOMAIN event_str |-> replace_QtCore(event_str[k])]>>,
     object |-> ObjectLines(RegistryLookup(obj_id))]

\* EventExplainer.run: one turn of the loop over enumerate(self.events)
ExplainerPrint ==
    /\ mode = "explain"
    /\ pc = "running"
    /\ pos < Len(scenario)
    /\ pos' = pos + 1
    /\ printed' = Append(printed, print_state(pos, scenario[pos + 1][1], scenario[pos + 1][2]))
    /\ UNCHANGED <<treeVars, resolverVars, mode, pc, exitStatus, is_started, recorderVars,
                   format_version, scenario, timerActive, quitRequested, warned, delivered,
                   failedAt, last, histVars, appExit, session, startVars, flagVars,
                   FUZZY_MATCHING, logVars, timeVars>>

\* EventExplainer.run returns at the end of the events, main returns 0
ExplainerReturns ==
    /\ mode = "explain"
    /\ pc = "running"
    /\ pos = Len(scenario)
    /\ pc' = "closed"
    /\ exitStatus' = 0
    /\ UNCHANGED <<treeVars, resolverVars, mode, is_started, recorderVars, replayerVars,
                   last, histVars, extVars>>

\* EventExplainer.__init__ on the file check_explain opened; the widgets are
\* those of whatever application is around
InitExplain ==
    /\ ReplayTestApp \/ ReplayNoButtons \/ ReplayShifted
    /\ ResolverIdle
    /\ mode = "explain" /\ pc = "running" /\ exitStatus = -1
    /\ is_started = FALSE
    /\ include = NoPattern /\ exclude = NoPattern
    /\ RecorderIdle
    /\ \E pairs \in RecordedPairs, version \in {0, SCENARIO_FORMAT_VERSION} :
         \E f \in {RecordedFile(pairs, <<>>, <<>>)} :
           /\ format_version = version
           /\ id_obj_map = IF version > 0 THEN f.registry ELSE <<>>
           /\ scenario = IF version > 0 THEN f.entries ELSE pairs
    /\ pos = 0
    /\ timerActive = FALSE
    /\ quitRequested = FALSE
    /\ warned = FALSE
    /\ delivered = <<>>
    /\ failedAt = 0
    /\ last = NoLast
    /\ appExit = -1
    /\ session = [script |-> <<>>, at |-> 0]
    /\ cmdline = NoArgs
    /\ opened = "rb"
    /\ printed = <<>>
    /\ flagBase = {} /\ flagBuilt = <<>> /\ flagKeys = [done |-> FALSE, keys |-> <<>>]
    /\ FUZZY_MATCHING = FALSE
    /\ TimeIdle
    /\ LogIdle

NextExplain ==
    \/ ExplainerPrint
    \/ ExplainerReturns

SpecExplain == InitExplain /\ [][NextExplain]_vars

\* ---------------------------------------------------------------- C11..C20

\* C11: in a replay whose idle timer gets to expire, once the
\* ActivationChange has been observed, in the end every scenario entry is
\* delivered and quit is requested, unless the application leaves its event
\* loop by itself or a replay step ends the process (a target that does not
\* resolve) before that.
C11_ReplayProgress ==
    is_started ~> ((quitRequested /\ Len(delivered) = Len(scenario)) \/ pc # "running")

C11_Witness ==
    /\ quitRequested
    /\ is_started
    /\ Len(delivered) = Len(scenario)
    /\ Len(scenario) = MaxScenario
    /\ DOMAIN id_obj_map = 1..MaxScenario
    /\ failedAt = 0
    /\ pc = "closed"
    /\ ~warned

\* C12: in a recording run the scenario file is written once, with the
\* format version, the registry and the event log, and that in the step that
\* follows the return of the application's entry point; it is never written
\* while the application runs, and never rewritten.
C12_FlushOnce ==
    /\ [][file' # file =>
             /\ pc = "returned" /\ pc' = "closed"
             /\ file = <<>>
             /\ file' = <<SCENARIO_FORMAT_VERSION, id_obj_map>> \o events]_vars
    /\ [](pc = "closed" <=> file # <<>>)

C12_Witness ==
    /\ pc = "closed"
    /\ Len(file) = 2 + MaxLog
    /\ file[2] = <<But1Path, DialogPath>>
    /\ appExit = -1

\* C13: the application's sys.exit(0) leaves the process running and the
\* teardown (the recorder's close) still runs once the entry point has
\* returned; its sys.exit with a non-zero status ends the process at once
\* with that status, and nothing is closed.
C13_ExitInterception ==
    /\ [][(appExit' = 0 /\ appExit # 0) =>
             (pc = "running" /\ pc' = "running" /\ exitStatus' = -1 /\ file' = file)]_vars
    /\ []((pc = "returned" /\ appExit = 0) => ENABLED RecorderClose)
    /\ [](appExit \notin {-1, 0} => (pc = "exited" /\ exitStatus = appExit /\ file = <<>>))

C13_Witness ==
    /\ appExit = 0
    /\ pc = "closed"
    /\ exitStatus = 0
    /\ Len(events) = 1
    /\ file = <<SCENARIO_FORMAT_VERSION, id_obj_map>> \o events

\* the same after a non-zero status
C13_WitnessNonZero == appExit = 4 /\ pc = "exited" /\ exitStatus = 4 /\ Len(events) = 1

\* the recording run observed the whole end-to-end session and was closed
EndToEndRecorded ==
    /\ session.script = EndToEndSession
    /\ session.at = Len(EndToEndSession)
    /\ pc = "closed"

\* C14 as stated: recording press B1, press B2, close on the two-button
\* window writes format version 1, a registry of exactly 2 entries and
\* exactly 3 log entries in that order.
C14_EndToEndRecording_Stated ==
    EndToEndRecorded =>
        /\ file[1] = 1
        /\ Len(file[2]) = 2
        /\ SubSeq(file, 3, Len(file)) = <<<<1, PressStr>>, <<2, PressStr>>, <<3, CloseStr>>>>

\* C14, amended: recording press B1, press B2, close on the two-button
\* window writes format version 1, a registry of exactly 3 entries (the
\* paths of B1, of B2 and of the window, ids 1,2,3) and exactly 3 log entries
\* in that order.
C14_EndToEndRecording ==
    EndToEndRecorded =>
        file = <<1, <<But1Path, But2Path, DialogPath>>,
                 <<1, PressStr>>, <<2, PressStr>>, <<3, CloseStr>>>>

C14_Witness ==
    /\ EndToEndRecorded
    /\ Len(file) = 5
    /\ But1Path[2].index = 0 /\ But2Path[2].index = 1
    /\ hPaths = <<serialize_object(2), serialize_object(3), serialize_object(1)>>

\* how often the pressed handler of button b has run: once per
\* MouseButtonPress the replayer sent to b
HandlerRuns(b) ==
    Cardinality({i \in DOMAIN delivered :
                    delivered[i].obj = b /\ delivered[i].event.type = "MouseButtonPress"})

\* the index of the first press sent to button b, 0 if none
FirstPress(b) ==
    LET at == {i \in DOMAIN delivered :
                  delivered[i].obj = b /\ delivered[i].event.type = "MouseButtonPress"}
    IN  IF at = {} THEN 0 ELSE CHOOSE i \in at : \A j \in at : i <= j

\* C15: the replay of the end-to-end recording on a fresh src/testapp.py
\* never runs a button's handler twice, runs B2's only after B1's, and once
\* the process has ended, both handlers have run exactly once and the exit
\* status is 0.
C15_EndToEndReplay ==
    /\ HandlerRuns(2) <= 1 /\ HandlerRuns(3) <= 1
    /\ HandlerRuns(3) = 1 => (HandlerRuns(2) = 1 /\ FirstPress(2) < FirstPress(3))
    /\ pc \in {"closed", "exited"} =>
          (exitStatus = 0 /\ HandlerRuns(2) = 1 /\ HandlerRuns(3) = 1 /\ ~warned)

C15_Witness ==
    /\ scenario = EndToEndFile.entries
    /\ pc = "closed"
    /\ exitStatus = 0
    /\ FirstPress(2) = 1 /\ FirstPress(3) = 2
    /\ Len(delivered) = 3
    /\ ~quitRequested

\* the members of the base whose value is the single bit mask
Named(mask) == {m \in flagBase : m.value = mask /\ m.klass = "MouseButton"}

\* the flags value was built by combining single-bit flags of the base
BuiltFromFlags ==
    /\ flagBuilt.type # "int"
    /\ \A i \in DOMAIN flagBuilt.parts :
          flagBuilt.parts[i] \in Masks /\ Named(flagBuilt.parts[i]) # {}

\* the set bits of the flags value, in ascending order
SetBits == SortedSeq({mask \in Masks : BitSet(FlagValue, mask)})

\* C16: for a value built by combining single-bit flags, _qflags_key gives
\* one name per set bit, each a name of that bit, in ascending mask order
\* (LeftButton with RightButton, in either order, gives Qt.LeftButton then
\* Qt.RightButton); for the value 0 of a base that names it, it gives the
\* one name of the zero flag.
C16_FlagDecomposition ==
    flagKeys.done =>
        /\ BuiltFromFlags =>
              /\ Len(flagKeys.keys) = Len(SetBits)
              /\ \A i \in DOMAIN flagKeys.keys :
                    \E m \in Named(SetBits[i]) : flagKeys.keys[i] = "Qt." \o m.name
        /\ (BuiltFromFlags /\ FlagValue = 3) => flagKeys.keys = <<"Qt.LeftButton", "Qt.RightButton">>
        /\ (flagBuilt.type # "int" /\ FlagValue = 0 /\ Named(0) # {}) =>
              flagKeys.keys = <<"Qt.NoButton">>

C16_Witness ==
    /\ flagBuilt.parts = <<2, 1>>
    /\ flagBuilt.type = "MouseButtons"
    /\ flagKeys.keys = <<"Qt.LeftButton", "Qt.RightButton">>
    /\ BuiltFromFlags

\* the same for the value 0
C16_WitnessZero ==
    /\ FlagValue = 0 /\ flagBuilt.type = "MouseButtons" /\ flagKeys.keys = <<"Qt.NoButton">>

\* the value of an emitted name
KeyValue(key) == (CHOOSE m \in flagBase : "Qt." \o m.name = key).value

\* C17: for every flags value, or-ing the values of the names _qflags_key
\* emitted gives the value back.
C17_SelfInverse ==
    (flagKeys.done /\ flagBuilt.type # "int") =>
        OrAll([i \in DOMAIN flagKeys.keys |-> KeyValue(flagKeys.keys[i])]) = FlagValue

\* the widgets below the top-level windows through layouts, the windows
\* included
RECURSIVE InLayoutTree(_)
InLayoutTree(w) ==
    IF parentWidget[w] = None THEN TRUE
    ELSE w \in inLayout /\ InLayoutTree(parentWidget[w])

\* The path in hand is unnamed, its exact positions lead to no widget, and
\* yet a widget of the target's declared type is in the tree of layouts.
PositionChanged ==
    /\ \A i \in DOMAIN rPath : rPath[i].name = ""
    /\ candidates(rPath, 0, topLevelWidgets) = Ret(None)
    /\ \E w \in DOMAIN parentWidget :
          InLayoutTree(w) /\ serialize_type(wtype[w]) = rPath[Len(rPath)].type

\* C18: when the exact positions of the path no longer lead to the target,
\* deserialize_object returns not-found with fuzzy matching disabled, and
\* with fuzzy matching enabled returns a widget of the declared type.
C18_MatchingModes ==
    (rPhase = "deserialized" /\ PositionChanged) =>
        /\ ~FUZZY_MATCHING => rBack = Ret(None)
        /\ FUZZY_MATCHING =>
              /\ rBack.exc = "" /\ rBack.widget # None
              /\ serialize_type(wtype[rBack.widget]) = rPath[Len(rPath)].type

\* the command line has a configuration error: the scenario file cannot be
\* opened, or the entry point is malformed or missing
ConfigurationError ==
    \/ cmdline.scenario = "unopenable"
    \/ cmdline.main # "ok"

\* C19: a run with a configuration error (and no --x11) never gets to the
\* application's main; it has not opened the scenario file for writing
\* while the error stands unreported, and it ends with status 1.
C19_ConfigurationFirst ==
    (mode \in {"record", "replay"} /\ ConfigurationError
        /\ ~cmdline.x11 /\ ~cmdline.x11_video) =>
        /\ pc # "running"
        /\ pc # "exited" => (opened # "wb" /\ pc # "patched")
        /\ pc = "exited" => (exitStatus = 1 /\ opened # "wb")

\* the path stored for scenario entry n: through the registry, or the entry's
\* own first field in a version 0 file
EntryPath(n) ==
    IF format_version > 0 THEN id_obj_map[scenario[n][1]] ELSE scenario[n][1]

\* the event string of scenario entry n with every 'QtCore.' taken out
EntryEventShown(n) ==
    [k \in DOMAIN scenario[n][2] |->
        CASE scenario[n][2][k] = "QtCore.QEvent.MouseButtonPress" -> "QEvent.MouseButtonPress"
          [] scenario[n][2][k] = "QtCore.QEvent.Close" -> "QEvent.Close"
          [] scenario[n][2][k] = "QtCore.QPoint(1, 2)" -> "QPoint(1, 2)"
          [] OTHER -> scenario[n][2][k]]

\* C20: what explain has printed is one block per scenario entry passed, in
\* recorded order and numbered from 0, made of the entry's event string and
\* of its stored path alone; when explain ends every entry has its block; no
\* event is delivered and the resolver is never asked for a widget.
C20_ExplainPrints ==
    mode = "explain" =>
        /\ Len(printed) = pos /\ pos <= Len(scenario)
        /\ \A n \in 1..Len(printed) :
              /\ printed[n].event = <<n - 1, EntryEventShown(n)>>
              /\ Len(printed[n].object) = Len(EntryPath(n))
              /\ \A k \in 1..Len(EntryPath(n)) :
                    printed[n].object[k] =
                        <<k, EntryPath(n)[k].index, EntryPath(n)[k].name, EntryPath(n)[k].type>>
        /\ pc = "closed" => (Len(printed) = Len(scenario) /\ exitStatus = 0)
        /\ delivered = <<>> /\ failedAt = 0 /\ ~quitRequested
        /\ rPhase = "idle" /\ last = NoLast

\* explain has ended on a full scenario none of whose objects is among the
\* widgets, its two entries on different objects
C20_Witness ==
    /\ mode = "explain" /\ pc = "closed"
    /\ Len(printed) = MaxScenario
    /\ Cardinality(allWidgets) = 1
    /\ format_version = SCENARIO_FORMAT_VERSION
    /\ printed[1].object # printed[MaxScenario].object
    /\ Len(printed[1].object) = 2

\* ------------------------------------------------ the scenario file loaded
\* A load that reads a registry from every file (the mutant of C21).
load_registry_always(f) ==
    [format_version |-> f[1],
     obj_cache |-> IF Len(f) >= 2 THEN f[2] ELSE <<>>,
     events |-> SubSeq(f, 3, Len(f))]

\* EventReplayer.load(file), the same lines as EventExplainer.__init__: the
\* version, the registry (obj_cache None, here <<>>, for version 0) and what
\* the iterator self.events still holds
load(f) ==
    [format_version |-> f[1],
     obj_cache |-> IF f[1] > 0 THEN f[2] ELSE <<>>,
     events |-> IF f[1] > 0 THEN SubSeq(f, 3, Len(f)) ELSE SubSeq(f, 2, Len(f))]

\* the format versions of the files at hand: legacy, current, a later one
FileVersions == {0, SCENARIO_FORMAT_VERSION, SCENARIO_FORMAT_VERSION + 1}

\* the pickled list of a recording of `pairs` in format `version`
Pickled(pairs, version) ==
    IF version > 0
    THEN <<version, RecordedFile(pairs, <<>>, <<>>).registry>>
             \o RecordedFile(pairs, <<>>, <<>>).entries
    ELSE <<version>> \o pairs

\* main: EventFilter(EventReplayer, args.scenario), which loads the file,
\* then the replacing of QApplication, sys.exit and sys.excepthook
ConstructReplayer ==
    /\ mode = "replay"
    /\ pc = "checked"
    /\ pc' = "patched"
    /\ format_version' = load(file).format_version
    /\ id_obj_map' = load(file).obj_cache
    /\ scenario' = load(file).events
    /\ pos' = 0
    /\ UNCHANGED <<treeVars, resolverVars, mode, exitStatus, is_started, include, exclude,
                   events, obj_id_map, autoinc, file, timerActive, quitRequested, warned,
                   last, histVars, extVars>>

\* main: explainer = EventExplainer(args.scenario)
ExplainerInit ==
    /\ mode = "explain"
    /\ pc = "checked"
    /\ pc' = "running"
    /\ format_version' = load(file).format_version
    /\ id_obj_map' = load(file).obj_cache
    /\ scenario' = load(file).events
    /\ pos' = 0
    /\ UNCHANGED <<treeVars, resolverVars, mode, exitStatus, is_started, include, exclude,
                   events, obj_id_map, autoinc, file, timerActive, quitRequested, warned,
                   last, histVars, extVars>>

\* replay or explain of a scenario file, from the return of parse_args
InitVersions ==
    /\ ReplayTestApp \/ ReplayNoButtons
    /\ ResolverIdle
    /\ mode \in {"replay", "explain"}
    /\ pc = "checked" /\ exitStatus = -1
    /\ is_started = FALSE
    /\ include = NoPattern /\ exclude = NoPattern
    /\ events = <<>> /\ obj_id_map = <<>> /\ autoinc = 1 /\ id_obj_map = <<>>
    /\ \E pairs \in RecordedPairs, version \in FileVersions : file = Pickled(pairs, version)
    /\ ReplayerIdle
    /\ hPaths = <<>> /\ delivered = <<>> /\ failedAt = 0
    /\ last = NoLast
    /\ appExit = -1
    /\ session = [script |-> <<>>, at |-> 0]
    /\ cmdline = [NoArgs EXCEPT !.main = "ok", !.scenario = "openable"]
    /\ opened = "rb"
    /\ printed = <<>>
    /\ flagBase = {} /\ flagBuilt = <<>> /\ flagKeys = [done |-> FALSE, keys |-> <<>>]
    /\ FUZZY_MATCHING = FALSE
    /\ TimeIdle
    /\ LogIdle

NextVersions ==
    \/ ConstructReplayer
    \/ CallMain
    \/ ExplainerInit
    \/ \E event \in ReplayObservable : ReplayerObserve(1, event)
    \/ TimerExpires
    \/ AppReturns
    \/ ReplayerClose
    \/ ExplainerPrint
    \/ ExplainerReturns

SpecVersions == InitVersions /\ [][NextVersions]_vars

\* the file has been loaded
Loaded == pc \notin {"checked"}

\* the target path of the n-th event of the file, read off the file itself
TargetPath(n) ==
    IF file[1] = 0 THEN file[1 + n][1] ELSE file[2][file[2 + n][1]]

\* C21: from a version 0 file the loader takes no registry and every entry
\* after the version as an event, whose first field is the target path that
\* replay resolves and explain prints; from a file of a version above 0 it
\* takes the second element as the registry and the target path is the
\* registry's entry for the event's first field.
C21_FormatVersions ==
    /\ [](Loaded =>
            /\ format_version = file[1]
            /\ file[1] = 0 => (id_obj_map = <<>> /\ Len(scenario) = Len(file) - 1)
            /\ file[1] > 0 => (id_obj_map = file[2] /\ Len(scenario) = Len(file) - 2)
            /\ \A n \in 1..Len(scenario) : RegistryLookup(scenario[n][1]) = TargetPath(n)
            /\ \A n \in 1..Len(printed) : printed[n].object = ObjectLines(TargetPath(n)))
    /\ [][(mode = "replay" /\ pc = "running" /\ pos' = pos + 1) =>
            /\ delivered' # delivered =>
                 Ret(delivered'[Len(delivered')].obj) \in deserialize_object(TargetPath(pos'))
            /\ failedAt' # failedAt => Ret(None) \in deserialize_object(TargetPath(pos'))
            /\ delivered' # delivered \/ pc' = "exited"]_vars

\* a replay of a legacy file delivered its second event on a button, and ...
C21_Witness ==
    /\ mode = "replay" /\ file[1] = 0 /\ Len(delivered) = 2 /\ Len(file) = 3
    /\ file[3][1] = But2Path /\ delivered[2].obj = 3

\* ... explain printed the blocks of a file of a later version
C21_WitnessLater ==
    /\ mode = "explain" /\ file[1] = SCENARIO_FORMAT_VERSION + 1 /\ pc = "closed"
    /\ Len(printed) = MaxScenario /\ Len(file[2]) = 2

\* C22: while the first ActivationChange has not been observed by the
\* replayer, its idle timer is not running, no observed event has reached
\* its method, no scenario entry has been popped or delivered, no target
\* has failed to resolve and quit has not been requested.
C22_ReplayerGate ==
    (mode = "replay" /\ ~is_started) =>
        /\ ~timerActive /\ ~last.reached
        /\ delivered = <<>> /\ failedAt = 0 /\ ~quitRequested
        /\ pc # "closed" => pos = 0
        /\ exitStatus \notin {2, 3}

\* events other than the ActivationChange were observed before the gate
\* opened, the last of them a mouse move on the dialog
C22_Witness ==
    /\ mode = "replay" /\ ~is_started /\ pc = "running"
    /\ last.obj = 1 /\ last.event.type = "MouseMove"
    /\ Len(scenario) = MaxScenario

\* --------------------------------------------------- the idle timer in time
\* self.timer = QtCore.QTimer(self, interval=50), in units of 25 ms
IdleInterval == 2

\* One unit of time passes in the event loop.  A timer that has run for its
\* interval is due; it fires then or later.
TimePasses ==
    /\ mode = "replay"
    /\ pc = "running"
    /\ idle < IdleInterval \/ (timerActive /\ elapsed < IdleInterval)
    /\ idle' = IF idle < IdleInterval THEN idle + 1 ELSE idle
    /\ elapsed' = IF timerActive /\ elapsed < IdleInterval THEN elapsed + 1 ELSE elapsed
    /\ UNCHANGED <<treeVars, resolverVars, procVars, is_started, recorderVars, replayerVars,
                   last, histVars, appExit, session, startVars, printed, flagVars,
                   FUZZY_MATCHING, logVars, restarted, sending>>

\* the event loop fires self.timer, which is due
IdleTimeout ==
    /\ elapsed = IdleInterval
    /\ TimerExpires

\* a replay of a current scenario on src/testapp.py, with a clock
InitPacing ==
    /\ InitReplay
    /\ format_version = SCENARIO_FORMAT_VERSION
    /\ ReplayTestApp

NextPacing ==
    \/ \E obj \in {1, NonWidget}, event \in ReplayObservable : ReplayerObserve(obj, event)
    \/ TimePasses
    \/ IdleTimeout
    \/ AppReturns
    \/ ReplayerClose

SpecPacing == InitPacing /\ [][NextPacing]_vars

\* C23: with the gate open, an observed event that is not the replayer's own
\* tick has restarted the idle timer, and its own tick has not; a running
\* timer has run for exactly the time since the last such event; so a
\* scenario event is delivered only when a whole interval has passed with no
\* other event observed.
C23_IdlePacing ==
    /\ []((mode = "replay" /\ is_started /\ last.reached /\ ~IsOwnTimer(last.event))
             => restarted)
    /\ [](IsOwnTimer(last.event) => ~restarted)
    /\ []((mode = "replay" /\ is_started /\ timerActive) => elapsed = idle)
    /\ [][delivered' # delivered => (elapsed = IdleInterval /\ idle = IdleInterval)]_vars

\* after the first delivery a mouse move restarted the timer, which has run
\* for half its interval since
C23_Witness ==
    /\ Len(delivered) = 1 /\ pos = 1 /\ pc = "running"
    /\ last.event.type = "MouseMove" /\ restarted
    /\ timerActive /\ elapsed = 1
    /\ Len(scenario) = MaxScenario

\* ------------------------------------------- handlers that run the loop
\* the timer expires, and the handler of the sent event runs the event loop
\* itself: sendEvent has not returned when the loop goes on
SpinningTimeout == Timeout(TRUE)

\* the handler that ran the event loop last returns, and so does the
\* qApp.sendEvent of setstate that called it
SendReturns ==
    /\ mode = "replay"
    /\ pc = "running"
    /\ sending > 0
    /\ sending' = sending - 1
    /\ UNCHANGED <<treeVars, resolverVars, procVars, is_started, recorderVars, replayerVars,
                   last, histVars, appExit, session, startVars, printed, flagVars,
                   FUZZY_MATCHING, logVars, elapsed, idle, restarted>>

\* a replay of a current scenario on an application with the widgets of
\* src/testapp.py whose handlers may run the event loop
InitNested ==
    /\ InitReplay
    /\ format_version = SCENARIO_FORMAT_VERSION
    /\ ReplayTestApp

NextNested ==
    \/ \E obj \in {1, NonWidget}, event \in ReplayObservable : ReplayerObserve(obj, event)
    \/ TimerExpires
    \/ SpinningTimeout
    \/ SendReturns

SpecNested == InitNested /\ [][NextNested]_vars

\* C24: at no time is more than one sendEvent of the replayer in progress:
\* no scenario event is delivered before the send of the one before it has
\* returned.
C24_SynchronousDelivery == mode = "replay" => sending <= 1

\* C25: a key event whose key code has no key name, observed through the
\* open gate on a widget with a path and passing the filters, is appended to
\* the log with the zero sentinel in the key's position and every other
\* attribute in constructor order; the filter returns and the recording
\* goes on.
C25_SentinelFallback ==
    (/\ mode = "record" /\ last.reached
     /\ last.event.cls = "QKeyEvent" /\ last.event.key \notin KnownKeys
     /\ ~is_skipped(last.obj, last.event)
     /\ serialize_object(last.obj) # <<>>)
    => /\ last.ret = "False"
       /\ exitStatus # 2
       /\ events # <<>>
       /\ events[Len(events)][2] = <<"QKeyEvent", "QtCore.QEvent.KeyPress", "0b0",
                                     "Qt.NoModifier", "'a'", "False", "1">>

\* the last observed event went through the open gate and the filters, on a
\* widget
Qualified == mode = "record" /\ last.reached /\ ~is_skipped(last.obj, last.event)

\* ... and was appended to the log
Appended ==
    /\ Qualified /\ last.ret = "False"
    /\ serialize_object(last.obj) # <<>>

Namesakes == {w \in allWidgets : objectName[w] = rPath[Len(rPath)].name}
TypedNamesakes == {w \in Namesakes : serialize_type(wtype[w]) = rPath[Len(rPath)].type}

\* C27: when the final element of the path has a name (and a type that can
\* be looked up) and some widget carries that name, deserialize_object
\* returns a widget with that name, one of the element's type if there is
\* such a widget.
C27_NameShortcut ==
    (/\ rPhase = "deserialized" /\ rPath # <<>>
     /\ rPath[Len(rPath)].name # "" /\ TypeStrOk(rPath[Len(rPath)].type)
     /\ Namesakes # {})
    => /\ rBack.exc = ""
       /\ rBack.widget \in Namesakes
       /\ TypedNamesakes # {} => rBack.widget \in TypedNamesakes

\* --------------------------- src/qttestgui.py: Resolver.serialize_object
\* the typed index as serialize_object of qttestgui.py computes it: among
\* the top-level widgets for a widget without a parent, else among
\* _get_children(parent); -1 stands for None
GuiTypedIndex(widget, parent) ==
    LET children_ == IF parent # None THEN gui_get_children(parent) ELSE topLevelWidgets
        typed_widgets == TypedSeqExact(wtype[widget], children_)
        hits == {i \in 1..Len(typed_widgets) : typed_widgets[i] = widget}
    IN  IF hits = {} THEN -1 ELSE (CHOOSE i \in hits : \A j \in hits : i <= j) - 1

RECURSIVE GuiSerializeLoop(_, _)
GuiSerializeLoop(widget, path) ==
    LET parent == parentWidget[widget]
        index == GuiTypedIndex(widget, parent)
    IN  IF index = -1 THEN <<>>
        ELSE LET path2 == Append(path, PathElement(index,
                                                   serialize_type(wtype[widget]),
                                                   objectName[widget]))
             IN  IF parent = None THEN Reverse(path2)
                 ELSE GuiSerializeLoop(parent, path2)

\* Resolver.serialize_object(obj) of qttestgui.py
gui_serialize_object(obj) == GuiSerializeLoop(obj, <<>>)

GuiSerialize(w) ==
    /\ mode = "gui"
    /\ rPhase = "idle"
    /\ rPhase' = "serialized"
    /\ rObj' = w
    /\ rPath' = gui_serialize_object(w)
    /\ UNCHANGED <<treeVars, rBack, procVars, is_started, recorderVars, replayerVars,
                   last, histVars, extVars>>

\* serialize_object of either program on the trees of InitResolver that
\* have at most one named widget
InitSerialize ==
    /\ TreeInit
    /\ Cardinality({w \in Widgets : objectName[w] # ""}) <= 1
    /\ ResolverIdle
    /\ mode \in {"resolve", "gui"} /\ pc = "closed" /\ exitStatus = -1
    /\ is_started = FALSE
    /\ include = NoPattern /\ exclude = NoPattern
    /\ id_obj_map = <<>>
    /\ RecorderIdle
    /\ ReplayerIdle
    /\ last = NoLast
    /\ ExtIdle

NextSerialize ==
    \/ \E w \in Widgets : Serialize(w)
    \/ \E w \in Widgets : GuiSerialize(w)

SpecSerialize == InitSerialize /\ [][NextSerialize]_vars

\* the widgets from the parentless root down to w
RECURSIVE AncestorChain(_)
AncestorChain(w) ==
    IF parentWidget[w] = None THEN <<w>> ELSE Append(AncestorChain(parentWidget[w]), w)

\* the enumeration in which the program at hand looks for w
Siblings(w) ==
    IF parentWidget[w] = None THEN topLevelWidgets
    ELSE IF mode = "gui" THEN gui_get_children(parentWidget[w])
    ELSE _get_children(parentWidget[w])

\* the place of w among the widgets of exactly its type in that enumeration,
\* from 0; -1 when it is not among them
SiblingIndex(w) ==
    IF \A i \in DOMAIN Siblings(w) : Siblings(w)[i] # w THEN -1
    ELSE LET first == CHOOSE i \in DOMAIN Siblings(w) :
                          Siblings(w)[i] = w /\ \A j \in 1..(i - 1) : Siblings(w)[j] # w
         IN  Cardinality({j \in 1..(first - 1) : wtype[Siblings(w)[j]] = wtype[w]})

\* C28: the path serialize_object returns is empty when the typed index of
\* some widget on the chain from the root to the target cannot be computed;
\* otherwise it has one element per widget of that chain, root first, each
\* with the widget's typed index, type reference and name.
C28_NoPartialPaths ==
    rPhase = "serialized" =>
        LET chain == AncestorChain(rObj)
            index == [k \in DOMAIN chain |-> SiblingIndex(chain[k])]
        IN  IF \E k \in DOMAIN chain : index[k] = -1
            THEN rPath = <<>>
            ELSE /\ Len(rPath) = Len(chain)
                 /\ \A k \in DOMAIN rPath :
                      rPath[k] = PathElement(index[k], serialize_type(wtype[chain[k]]),
                                             objectName[chain[k]])

\* a widget at depth 3 whose own index is found while its parent's is not:
\* an element had been collected when the path was abandoned
C28_Witness ==
    /\ rPhase = "serialized" /\ rPath = <<>>
    /\ Len(AncestorChain(rObj)) = 3
    /\ SiblingIndex(rObj) # -1
    /\ SiblingIndex(parentWidget[rObj]) = -1

\* a full path of two elements from src/qttestgui.py
C28_WitnessFull == rPhase = "serialized" /\ Len(rPath) = 2 /\ mode = "gui"

\* deserialize_object went down the tree: the final element has no name, or
\* no widget carries it
Descended ==
    /\ rPhase = "deserialized" /\ rBack.exc = ""
    /\ rPath[Len(rPath)].name = "" \/ Namesakes = {}

\* C29: every index of a serialized path counts the siblings of exactly the
\* widget's type that come before it, and the widget structural descent
\* returns has, like each of its ancestors, exactly the type of its path
\* element and that element's index among the siblings of exactly that type:
\* an instance of a subclass (a LocalButton among QPushButtons) is neither
\* counted nor selected.
C29_ExactTypes ==
    /\ (rPhase \in {"serialized", "deserialized"} /\ rPath # <<>>) =>
          LET chain == AncestorChain(rObj)
          IN  \A k \in DOMAIN rPath :
                LET among == Siblings(chain[k])
                IN  rPath[k].index =
                        Cardinality({j \in DOMAIN among :
                                        /\ \A i \in 1..j : among[i] # chain[k]
                                        /\ wtype[among[j]] = wtype[chain[k]]})
    /\ (Descended /\ rBack.widget # None) =>
          LET chain == AncestorChain(rBack.widget)
          IN  /\ Len(chain) <= Len(rPath)
              /\ \A k \in DOMAIN chain :
                    /\ QualifiedName(wtype[chain[k]]) = rPath[k].type
                    /\ SiblingIndex(chain[k]) = rPath[k].index

\* descent returned a QPushButton that comes after a LocalButton among the
\* children of its parent, with index 0
C29_Witness ==
    /\ Descended /\ rBack.widget = rObj /\ wtype[rObj] = "QPushButton"
    /\ Len(rPath) = 2 /\ rPath[2].index = 0
    /\ \E w \in allWidgets :
          /\ w < rObj /\ parentWidget[w] = parentWidget[rObj]
          /\ wtype[w] = "LocalButton" /\ w \notin unlisted

\* C30: when the replayer has been closed the warning was logged exactly if
\* fewer events were delivered than the scenario holds, and the exit status
\* is 0 either way; before the close nothing is warned.
C30_TeardownWarning ==
    /\ (mode = "replay" /\ pc = "closed") =>
          /\ warned <=> Len(delivered) < Len(scenario)
          /\ exitStatus = 0
    /\ (mode = "replay" /\ pc # "closed") => ~warned

\* closed with a warning after one of the scenario's events was delivered
C30_Witness ==
    /\ mode = "replay" /\ pc = "closed" /\ warned /\ exitStatus = 0
    /\ Len(delivered) = 1 /\ Len(scenario) = MaxScenario

\* closed without a warning after all of them were
C30_WitnessQuiet ==
    /\ mode = "replay" /\ pc = "closed" /\ ~warned
    /\ Len(delivered) = MaxScenario
\* ------------------------------ src/qttestgui.py: the EventRecorder
\* SCENARIO_VERSION of qttestgui.py
SCENARIO_VERSION == 1

\* Resolver.EVENT_ATTRIBUTES.get(type(event).__name__, ('type',)) of
\* qttestgui.py: QCloseEvent has no entry of its own
gui_EVENT_ATTRIBUTES(cls) ==
    CASE cls = "QMouseEvent" -> <<"type", "pos", "globalPos", "button", "buttons", "modifiers">>
      [] cls = "QKeyEvent"   -> <<"type", "key", "modifiers", "text", "isAutoRepeat", "count">>
      [] cls = "QMoveEvent"  -> <<"pos", "oldPos">>
      [] OTHER               -> <<"type">>

\* Resolver.serialize_event of qttestgui.py
gui_serialize_event(event) ==
    LET event_attributes == gui_EVENT_ATTRIBUTES(event.cls)
        hasType == event_attributes # <<>> /\ event_attributes[1] = "type"
        first == IF hasType THEN <<"QtCore.QEvent." \o event.type>> ELSE <<>>
        rest == IF hasType THEN Tail(event_attributes) ELSE event_attributes
        vals == [i \in 1..Len(rest) |-> _serialize_value(event, rest[i])]
        raised == {i \in 1..Len(rest) : vals[i].exc \notin {"", "ValueError"}}
        args == [i \in 1..Len(rest) |->
                    IF vals[i].exc = "ValueError" THEN "0b0" ELSE vals[i].str]
    IN  IF raised # {}
        THEN [str |-> <<>>, exc |-> vals[CHOOSE i \in raised : \A j \in raised : i <= j].exc]
        ELSE [str |-> <<event.cls>> \o first \o args, exc |-> ""]

\* Resolver.getstate of qttestgui.py: (obj_path, event_str), None (ret =
\* <<>>) for an object without a path, or the exception that leaves it
gui_getstate(obj, event) ==
    LET obj_path == gui_serialize_object(obj)
        ev == gui_serialize_event(event)
    IN  IF obj_path = <<>> THEN [ret |-> <<>>, exc |-> ""]
        ELSE IF ev.exc # "" THEN [ret |-> <<>>, exc |-> ev.exc]
        ELSE [ret |-> <<obj_path, ev.str>>, exc |-> ""]

\* The wrapped EventRecorder.eventFilter(obj, event) of qttestgui.py, whole.
GuiRecorderObserve(obj, event) ==
    /\ mode = "guirecord"
    /\ pc = "running"
    /\ Len(events) < MaxLog
    /\ is_started' = StartedAfter(event)
    /\ UNCHANGED <<treeVars, resolverVars, replayerVars, delivered, failedAt, extVars,
                   include, exclude, file, id_obj_map, obj_id_map, autoinc, mode>>
    /\ IF ~CallsMethod(is_started') \/ is_skipped(obj, event)
       THEN /\ last' = [obj |-> obj, event |-> event, active |-> FALSE,
                        reached |-> CallsMethod(is_started'), ret |-> "False",
                        activated |-> FALSE]
            /\ UNCHANGED <<events, hPaths, pc, exitStatus>>
       ELSE \E st \in {gui_getstate(obj, event)} :
            /\ last' = [obj |-> obj, event |-> event, active |-> FALSE, reached |-> TRUE,
                        ret |-> IF st.exc # "" THEN "raised" ELSE "False",
                        activated |-> FALSE]
            /\ events' = IF st.ret # <<>> THEN Append(events, st.ret) ELSE events
            /\ hPaths' = IF st.ret # <<>> THEN Append(hPaths, st.ret[1]) ELSE hPaths
            /\ IF st.exc # "" THEN pc' = "exited" /\ exitStatus' = 2
               ELSE UNCHANGED <<pc, exitStatus>>

\* EventRecorder.dump: the number in "Scenario of %d events written"
GuiReportedCount(self_events) == Len(self_events) - SCENARIO_VERSION

\* main of qttestgui.py after args.main() returned: recorder.dump, return 0
GuiDump ==
    /\ mode = "guirecord"
    /\ pc = "returned"
    /\ file' = <<SCENARIO_VERSION>> \o events
    /\ reported' = GuiReportedCount(file')
    /\ pc' = "closed"
    /\ exitStatus' = 0
    /\ UNCHANGED <<treeVars, resolverVars, mode, is_started, include, exclude, events,
                   id_obj_map, obj_id_map, autoinc, replayerVars, last, histVars,
                   appExit, session, startVars, printed, flagVars, FUZZY_MATCHING,
                   timeVars, quits>>

\* a recording run of pyqttester.py or of qttestgui.py on src/testapp.py
InitCount ==
    /\ TestAppInit
    /\ ResolverIdle
    /\ mode \in {"record", "guirecord"} /\ pc = "running" /\ exitStatus = -1
    /\ is_started = FALSE
    /\ include \in {DefaultInclude, NoPattern}
    /\ exclude \in {NoPattern, << <<"Key">> >>}
    /\ id_obj_map = <<>>
    /\ RecorderIdle
    /\ ReplayerIdle
    /\ last = NoLast
    /\ ExtIdle

NextCount ==
    \/ \E obj \in DOMAIN parentWidget \cup {NonWidget}, event \in ObservableEvents,
          active \in BOOLEAN : RecorderObserve(obj, event, active)
    \/ \E obj \in DOMAIN parentWidget \cup {NonWidget}, event \in ObservableEvents :
          GuiRecorderObserve(obj, event)
    \/ AppReturns
    \/ RecorderClose
    \/ GuiDump

SpecCount == InitCount /\ [][NextCount]_vars

\* C31: the number of events the recorder reports when it writes the
\* scenario is the number of entries appended to the event log during the
\* capture (hPaths has one element per append); nothing is reported before.
C31_ReportedCount ==
    /\ mode \in {"record", "guirecord"} =>
         IF pc = "closed" THEN reported = Len(hPaths) /\ reported = Len(events)
         ELSE reported = -1
    /\ (mode = "record" /\ pc = "closed") => Len(file) = reported + 2
    /\ (mode = "guirecord" /\ pc = "closed") => Len(file) = reported + 1

\* pyqttester.py reported a scenario of MaxLog events
C31_Witness == mode = "record" /\ pc = "closed" /\ reported = MaxLog /\ Len(hPaths) = MaxLog

\* qttestgui.py reported a scenario of one event
C31_WitnessGui == mode = "guirecord" /\ pc = "closed" /\ reported = 1 /\ Len(hPaths) = 1

\* ------------------------------------- recording a type of a local scope
\* src/testapp.py with its second button an instance of a class defined
\* inside main, so that type(widget).__qualname__ holds '.<locals>.'
LocalAppInit ==
    /\ parentWidget = <<None, 1, 1, 1>>
    /\ wtype = <<"QDialog", "QPushButton", "LocalButton", "QPushButton">>
    /\ objectName = <<"", "but1", "but2", "">>
    /\ unlisted = {4}
    /\ inLayout = {2, 3}

InitRecordLocal ==
    /\ LocalAppInit
    /\ ResolverIdle
    /\ mode = "record" /\ pc = "running" /\ exitStatus = -1
    /\ is_started = FALSE
    /\ include \in {DefaultInclude, NoPattern}
    /\ exclude \in {NoPattern, << <<"Key">> >>}
    /\ id_obj_map = <<>>
    /\ RecorderIdle
    /\ ReplayerIdle
    /\ last = NoLast
    /\ ExtIdle

SpecRecordLocal == InitRecordLocal /\ [][NextRecord]_vars

\* some widget from the root down to w has a type of a local scope
LocalOnChain(w) == \E k \in DOMAIN AncestorChain(w) : HasLocals(wtype[AncestorChain(w)[k]])

\* C32: every path element stored in the registry during capture carries a
\* non-empty type reference, and an event on a widget with a type of a local
\* scope on its ancestor chain is skipped: it adds no entry to the log.
C32_TypeReferences ==
    mode = "record" =>
        /\ \A id \in DOMAIN id_obj_map : \A k \in DOMAIN id_obj_map[id] :
              id_obj_map[id][k].type # ""
        /\ \A i \in DOMAIN hPaths : \A k \in DOMAIN hPaths[i] : hPaths[i][k].type # ""
        /\ (last.reached /\ isQWidget(last.obj) /\ LocalOnChain(last.obj)) =>
              (Len(events) = 0 \/ hPaths[Len(hPaths)] # serialize_object(last.obj))

\* ------------------------------------------------- the whole path
\* The widget reached by selecting a child for each element of path from
\* the i-th on, None when one of them selects nothing.
RECURSIVE FullDescent(_, _, _)
FullDescent(path, i, widgets) ==
    LET element == path[i + 1]
        widget == IF TypeStrOk(element.type)
                  THEN typed_nth(element.index, deserialize_type(element.type), widgets)
                  ELSE None
    IN  IF widget = None \/ i + 1 = Len(path) THEN widget
        ELSE FullDescent(path, i + 1, _get_children(widget))

\* C33: the widget the structural descent of deserialize_object returns for
\* a path of length n is the one reached after selecting a child for each
\* of the n elements, also when an element before the last is equal to the
\* last one.
C33_WholePath ==
    (mode = "resolve" /\ Descended) => rBack.widget = FullDescent(rPath, 0, topLevelWidgets)

\* ------------------------------------------------ the registry in a run
\* a recording run of src/testapp.py without an --events-exclude pattern
InitCapture ==
    /\ InitRecord
    /\ exclude = NoPattern

SpecCapture == InitCapture /\ [][NextRecord]_vars

\* C34: during a capture every object id of an entry of the event log is a
\* key of the registry, under which the path of the entry's object is kept;
\* the id-to-path and path-to-id maps are inverse to each other; the
\* registry written into the file is the one the log's ids refer to; and no
\* step changes or removes a mapping.
C34_RegistryConsistency ==
    /\ [](mode = "record" =>
            /\ \A i \in DOMAIN events :
                  /\ events[i][1] \in DOMAIN id_obj_map
                  /\ id_obj_map[events[i][1]] = hPaths[i]
            /\ \A id \in DOMAIN id_obj_map :
                  /\ id_obj_map[id] \in DOMAIN obj_id_map
                  /\ obj_id_map[id_obj_map[id]] = id
            /\ \A path \in DOMAIN obj_id_map :
                  /\ obj_id_map[path] \in DOMAIN id_obj_map
                  /\ id_obj_map[obj_id_map[path]] = path
            /\ file # <<>> => (file[2] = id_obj_map /\ SubSeq(file, 3, Len(file)) = events))
    /\ [][mode = "record" =>
            /\ \A id \in DOMAIN id_obj_map :
                  id \in DOMAIN id_obj_map' /\ id_obj_map'[id] = id_obj_map[id]
            /\ \A path \in DOMAIN obj_id_map :
                  path \in DOMAIN obj_id_map' /\ obj_id_map'[path] = obj_id_map[path]]_vars

\* a written scenario of two events on one button: one registry entry
C34_Witness ==
    /\ mode = "record" /\ pc = "closed" /\ Len(events) = 2
    /\ events[1][1] = events[2][1] /\ DOMAIN file[2] = {1}

\* a log of two events on two widgets: two registry entries
C34_WitnessTwo ==
    /\ mode = "record" /\ Len(events) = 2 /\ events[1][1] # events[2][1]
    /\ DOMAIN id_obj_map = {1, 2} /\ Cardinality(DOMAIN obj_id_map) = 2

\* ------------------------------------------------- what gets recorded
\* a step in which Qt handed an event to the recorder's filter, which saw
\* it as last' says
ObservedStep ==
    /\ mode = "record" /\ pc = "running" /\ pc' # "returned"
    /\ appExit' = appExit

\* the event the filter saw passes the filters on a widget that has a path
Recordable ==
    /\ is_started'
    /\ event_matches(last'.event.cls)
    /\ isQWidget(last'.obj)
    /\ serialize_object(last'.obj) # <<>>

\* C35: once the gate is open, an observed event that passes the inclusion
\* filter and whose target has a non-empty object path adds exactly one
\* entry to the end of the event log, any other observed event adds none,
\* and no step changes or removes an entry.
C35_RecordingCompleteness ==
    [][/\ ObservedStep =>
            IF Recordable
            THEN Len(events') = Len(events) + 1 /\ SubSeq(events', 1, Len(events)) = events
            ELSE events' = events
       /\ mode = "record" => SubSeq(events', 1, Len(events)) = events]_vars

\* C36: the recorder requests the activation of a window only for an event
\* that is then appended to the event log; an event that is filtered out,
\* or dropped because its target has no path, causes no request.
C36_ActivationOnlyRecorded ==
    [][(ObservedStep /\ last'.activated) => Len(events') = Len(events) + 1]_vars

\* ------------------------------------------------- the end of a replay
\* C37: once the scenario is exhausted and quit has been requested the idle
\* timer is never active again and quit is requested at most once in the
\* run, whatever the filter observes afterwards.
C37_DoneTerminal ==
    (mode = "replay" /\ quitRequested) => (~timerActive /\ quits <= 1)

\* C38: the scenario file is written only by the recorder's close, in a
\* step taken after the application's entry point returned, and then it
\* holds the whole log; a recording run ended by a non-zero exit request of
\* the application or by an unhandled error (status 2) has written nothing,
\* however many events it had captured.
C38_NoScenarioOnAbnormalEnd ==
    /\ [][(mode = "record" /\ file' # file) =>
             (pc = "returned" /\ pc' = "closed" /\ exitStatus' = 0)]_vars
    /\ []((mode = "record" /\ pc = "exited") =>
             (exitStatus \in {2} \cup (AppStatuses \ {0}) /\ file = <<>> /\ reported = -1))
    /\ []((mode = "record" /\ file # <<>>) =>
             (pc = "closed" /\ Len(file) = 2 + Len(hPaths)))

\* a run ended by an unhandled error after an event was captured
C38_Witness ==
    /\ mode = "record" /\ pc = "exited" /\ exitStatus = 2
    /\ Len(events) = 1 /\ file = <<>>

\* a run ended by the application's sys.exit(4) after events were captured
C38_WitnessExit ==
    /\ mode = "record" /\ pc = "exited" /\ exitStatus = 4 /\ appExit = 4
    /\ Len(events) = MaxLog /\ file = <<>>

\* ------------------------------------------------ the event that opens
\* A recording run and a replay run of src/testapp.py, side by side.
InitGate ==
    \/ InitRecord /\ exclude = NoPattern
    \/ InitReplay /\ ReplayTestApp /\ format_version = SCENARIO_FORMAT_VERSION

NextGate ==
    \/ \E obj \in DOMAIN parentWidget \cup {NonWidget}, event \in ObservableEvents,
          active \in BOOLEAN : RecorderObserve(obj, event, active)
    \/ \E obj \in {1, NonWidget}, event \in ReplayObservable : ReplayerObserve(obj, event)
    \/ TimerExpires
    \/ AppReturns
    \/ RecorderClose
    \/ ReplayerClose

SpecGate == InitGate /\ [][NextGate]_vars

\* a step in which a filter was handed an event while the application runs
FilterStep ==
    /\ mode \in {"record", "replay"} /\ pc = "running" /\ pc' # "returned"
    /\ last'.event.timerId # "own"

\* C39: the event that opens the gate, the first ActivationChange, reaches
\* the wrapped method in the same call: the replayer's idle timer is running
\* after it, and the recorder has put it through its filter and logged it if
\* it matches on a widget with a path.  An event observed while the gate
\* stays shut is answered False without reaching the method, and changes
\* neither the log nor the timer.
C39_GateOpeningEvent ==
    /\ [][(~is_started /\ is_started') =>
             /\ last'.event.type = "ActivationChange" /\ last'.reached
             /\ last'.ret = "False"
             /\ mode = "replay" => (timerActive' /\ restarted')
             /\ mode = "record" =>
                  IF event_matches(last'.event.cls) /\ isQWidget(last'.obj)
                     /\ serialize_object(last'.obj) # <<>>
                  THEN events' = <<events'[1]>> /\ events'[1][2] = serialize_event(last'.event).str
                       /\ hPaths' = <<serialize_object(last'.obj)>>
                  ELSE events' = <<>>]_vars
    /\ [][(FilterStep /\ ~is_started') =>
             /\ ~last'.reached /\ last'.ret = "False"
             /\ events' = events /\ timerActive' = timerActive /\ ~restarted'
             /\ pos' = pos /\ delivered' = delivered]_vars

\* the recorder logged the ActivationChange that opened its gate
C39_Witness ==
    /\ mode = "record" /\ is_started /\ Len(events) = 1
    /\ last.event.type = "ActivationChange" /\ last.obj = 1
    /\ events[1][2] = <<"QEvent", "QtCore.QEvent.ActivationChange">>

\* the recorder's default pattern left the opening event out
C39_WitnessFiltered ==
    /\ mode = "record" /\ is_started /\ events = <<>> /\ include = DefaultInclude
    /\ last.event.type = "ActivationChange" /\ last.obj = 1 /\ last.reached

\* the replayer's timer runs after the opening event, nothing replayed yet
C39_WitnessReplay ==
    /\ mode = "replay" /\ is_started /\ timerActive /\ restarted /\ pos = 0
    /\ last.event.type = "ActivationChange" /\ last.reached /\ scenario # <<>>

\* --------------------------- src/qttestgui.py: descent from a named widget
\* deserialize_object of qttestgui.py on a path serialize_object returned
GuiDeserializeSerialized ==
    /\ rPath # <<>>
    /\ GuiDeserialize

\* serialize_object and deserialize_object of qttestgui.py on one tree
InitAnchor ==
    /\ InitSerialize
    /\ mode = "gui"

NextAnchor ==
    \/ \E w \in Widgets : GuiSerialize(w)
    \/ GuiDeserializeSerialized

SpecAnchor == InitAnchor /\ [][NextAnchor]_vars

\* the target of rPath has no name, and a widget above it has one
AnchoredCase ==
    /\ mode = "gui" /\ rPhase = "deserialized"
    /\ rPath[Len(rPath)].name = ""
    /\ \E k \in DOMAIN rPath : rPath[k].name # ""

\* C40: for an unnamed target below a named ancestor, on the tree as it was
\* serialized, deserialize_object of qttestgui.py (which descends from the
\* named ancestor) returns what the structural descent from the top-level
\* windows returns, whatever the named ancestor's index among its siblings.
C40_NameAnchored ==
    AnchoredCase => rBack = candidates(rPath, 0, topLevelWidgets)


====
